---- MODULE Spec2Model ----
(***************************************************************************)
(* Model of the Cortex Agent chat relay of src/agent_app/agent_app.py:     *)
(* the request handler agent_chat_stream, its async generator              *)
(* event_stream, the SSE block parser parse_sse_block and the session      *)
(* lookup dependencies get_current_user / get_access_token.                *)
(*                                                                         *)
(* Text.  A Python str is a sequence of atoms.  An atom is a run of        *)
(* characters that no operation of the program splits: the prefixes        *)
(* "event:" and "data:", one blank " ", one newline "\n", the JSON         *)
(* punctuation, the double quote, and words.  Concatenation, strip,        *)
(* startswith, join and the JSON decoder work on these sequences as the    *)
(* Python operations work on characters.                                   *)
(*                                                                         *)
(* JSON values are records [k, v]: k is the Python type of the decoded     *)
(* value, v its content.  A dict is the sequence of its (key, value)       *)
(* pairs in insertion order.                                               *)
(***************************************************************************)
EXTENDS Integers, Sequences, FiniteSets, TLC

(***************************************************************************)
(* Bounds of the model.                                                    *)
(***************************************************************************)
\* longest upstream line sequence built freely from CoreLines
MaxLines == 4
\* longest line group handed to parse_sse_block
MaxBlockLines == 3
\* most upstream lines of a turn on the event loop
MaxTurnLines == 2
\* the clock of the session stores stops here (seconds)
MaxTime == 3700

(***************************************************************************)
(* Python str operations.                                                  *)
(***************************************************************************)
\* characters str.strip() / str.lstrip() remove
Whitespace == {" ", "\n"}

RECURSIVE lstrip(_)
lstrip(s) ==
    IF s # <<>> /\ s[1] \in Whitespace THEN lstrip(Tail(s)) ELSE s

RECURSIVE rstrip(_)
rstrip(s) ==
    IF s # <<>> /\ s[Len(s)] \in Whitespace
    THEN rstrip(SubSeq(s, 1, Len(s) - 1)) ELSE s

strip(s) == lstrip(rstrip(s))

\* line.strip('\n'): only newlines are removed, blanks stay
RECURSIVE strip_nl(_)
strip_nl(s) ==
    IF s # <<>> /\ s[1] = "\n" THEN strip_nl(Tail(s))
    ELSE IF s # <<>> /\ s[Len(s)] = "\n"
         THEN strip_nl(SubSeq(s, 1, Len(s) - 1))
         ELSE s

\* line.startswith(p) for a one-atom prefix p
startswith(s, p) == s # <<>> /\ s[1] = p

\* "\n".join(lines)
RECURSIVE join(_)
join(lines) ==
    IF lines = <<>> THEN <<>>
    ELSE IF Len(lines) = 1 THEN lines[1]
    ELSE lines[1] \o <<"\n">> \o join(Tail(lines))

(***************************************************************************)
(* JSON values (the Python objects json.loads returns).                    *)
(***************************************************************************)
JStr(s)  == [k |-> "str",  v |-> s]
JNum(a)  == [k |-> "num",  v |-> <<a>>]
JNull    == [k |-> "null", v |-> <<>>]
JTrue    == [k |-> "bool", v |-> <<"true">>]
JFalse   == [k |-> "bool", v |-> <<"false">>]
JArr(xs) == [k |-> "list", v |-> xs]
JObj(ps) == [k |-> "dict", v |-> ps]

S(a) == JStr(<<a>>)
Pair(key, val) == [key |-> <<key>>, val |-> val]

\* isinstance(x, dict) / isinstance(x, str)
isdict(x) == x.k = "dict"
isstr(x)  == x.k = "str"

\* Python truth value of a decoded JSON value
NumberAtoms == {"0", "5", "500", "503"}
truthy(x) ==
    CASE x.k = "null" -> FALSE
      [] x.k = "bool" -> x = JTrue
      [] x.k = "num"  -> x.v # <<"0">>
      [] OTHER        -> x.v # <<>>

\* key in d
RECURSIVE haskey(_, _)
haskey(ps, key) ==
    IF ps = <<>> THEN FALSE
    ELSE ps[1].key = key \/ haskey(Tail(ps), key)

\* d.get(key, default) on the pair sequence of a dict
RECURSIVE lookup(_, _, _)
lookup(ps, key, default) ==
    IF ps = <<>> THEN default
    ELSE IF ps[1].key = key THEN ps[1].val
    ELSE lookup(Tail(ps), key, default)

get(d, key, default) == lookup(d.v, <<key>>, default)

\* d[key] = val: an existing key keeps its position, a new key is appended
RECURSIVE setitem(_, _, _)
setitem(ps, key, val) ==
    IF ps = <<>> THEN <<[key |-> key, val |-> val]>>
    ELSE IF ps[1].key = key THEN <<[key |-> key, val |-> val]>> \o Tail(ps)
    ELSE <<ps[1]>> \o setitem(Tail(ps), key, val)

(***************************************************************************)
(* json.loads: a recursive-descent decoder over the atoms.  Every parse    *)
(* operator returns [ok, val, pos]: pos is the index after the value.      *)
(***************************************************************************)
Fail == [ok |-> FALSE, val |-> JNull, pos |-> 0]
Ok(val, pos) == [ok |-> TRUE, val |-> val, pos |-> pos]

RECURSIVE skip_ws(_, _)
skip_ws(s, i) ==
    IF i <= Len(s) /\ s[i] \in Whitespace THEN skip_ws(s, i + 1) ELSE i

\* index of the first double quote at or after i, 0 when there is none
RECURSIVE find_quote(_, _)
find_quote(s, i) ==
    IF i > Len(s) THEN 0
    ELSE IF s[i] = "\"" THEN i
    ELSE find_quote(s, i + 1)

\* the two-character escape \" of a JSON string literal is one atom
EscapedQuote == "\\\""

\* the content of a string literal -> the str it denotes
unescape(s) == [i \in 1..Len(s) |-> IF s[i] = EscapedQuote THEN "\"" ELSE s[i]]

\* a str -> the content of its string literal (json.dumps escaping)
escape(s) == [i \in 1..Len(s) |-> IF s[i] = "\"" THEN EscapedQuote ELSE s[i]]

\* s[i] is an opening quote
parse_string(s, i) ==
    LET q == find_quote(s, i + 1)
    IN  IF q = 0 THEN Fail
        ELSE Ok(JStr(unescape(SubSeq(s, i + 1, q - 1))), q + 1)

RECURSIVE parse_value(_, _)
RECURSIVE parse_members(_, _, _)
RECURSIVE parse_elements(_, _, _)

parse_value(s, i0) ==
    LET i == skip_ws(s, i0)
    IN  IF i > Len(s) THEN Fail
        ELSE CASE s[i] = "\"" -> parse_string(s, i)
               [] s[i] = "{" ->
                    LET j == skip_ws(s, i + 1)
                    IN  IF j <= Len(s) /\ s[j] = "}"
                        THEN Ok(JObj(<<>>), j + 1)
                        ELSE parse_members(s, j, <<>>)
               [] s[i] = "[" ->
                    LET j == skip_ws(s, i + 1)
                    IN  IF j <= Len(s) /\ s[j] = "]"
                        THEN Ok(JArr(<<>>), j + 1)
                        ELSE parse_elements(s, j, <<>>)
               [] s[i] \in NumberAtoms -> Ok(JNum(s[i]), i + 1)
               [] s[i] = "null"  -> Ok(JNull, i + 1)
               [] s[i] = "true"  -> Ok(JTrue, i + 1)
               [] s[i] = "false" -> Ok(JFalse, i + 1)
               [] OTHER -> Fail

\* members of an object: "key" : value { , "key" : value } "}"
parse_members(s, i0, acc) ==
    LET i == skip_ws(s, i0)
    IN  IF i > Len(s) \/ s[i] # "\"" THEN Fail
        ELSE
        LET key == parse_string(s, i)
            c   == skip_ws(s, key.pos)
        IN  IF ~key.ok \/ c > Len(s) \/ s[c] # ":" THEN Fail
            ELSE
            LET val  == parse_value(s, c + 1)
                e    == skip_ws(s, val.pos)
                acc2 == setitem(acc, key.val.v, val.val)
            IN  IF ~val.ok \/ e > Len(s) THEN Fail
                ELSE IF s[e] = "}" THEN Ok(JObj(acc2), e + 1)
                ELSE IF s[e] = "," THEN parse_members(s, e + 1, acc2)
                ELSE Fail

\* elements of an array: value { , value } "]"
parse_elements(s, i0, acc) ==
    LET val == parse_value(s, i0)
        e   == skip_ws(s, val.pos)
    IN  IF ~val.ok \/ e > Len(s) THEN Fail
        ELSE IF s[e] = "]" THEN Ok(JArr(Append(acc, val.val)), e + 1)
        ELSE IF s[e] = "," THEN parse_elements(s, e + 1, Append(acc, val.val))
        ELSE Fail

\* json.loads(s): ok = FALSE stands for json.JSONDecodeError
json_loads(s) ==
    LET r == parse_value(s, 1)
    IN  IF r.ok /\ skip_ws(s, r.pos) > Len(s) THEN r ELSE Fail

(***************************************************************************)
(* json.dumps with the default separators ", " and ": ".                   *)
(***************************************************************************)
RECURSIVE json_dumps(_)
RECURSIVE dumps_items(_)
RECURSIVE dumps_pairs(_)

json_dumps(x) ==
    CASE x.k = "str"  -> <<"\"">> \o escape(x.v) \o <<"\"">>
      [] x.k = "num"  -> x.v
      [] x.k = "bool" -> x.v
      [] x.k = "null" -> <<"null">>
      [] x.k = "list" -> <<"[">> \o dumps_items(x.v) \o <<"]">>
      [] x.k = "dict" -> <<"{">> \o dumps_pairs(x.v) \o <<"}">>

dumps_items(xs) ==
    IF xs = <<>> THEN <<>>
    ELSE IF Len(xs) = 1 THEN json_dumps(xs[1])
    ELSE json_dumps(xs[1]) \o <<",", " ">> \o dumps_items(Tail(xs))

dumps_pairs(ps) ==
    LET one(p) == <<"\"">> \o escape(p.key) \o <<"\"", ":", " ">>
                  \o json_dumps(p.val)
    IN  IF ps = <<>> THEN <<>>
        ELSE IF Len(ps) = 1 THEN one(ps[1])
        ELSE one(ps[1]) \o <<",", " ">> \o dumps_pairs(Tail(ps))

(***************************************************************************)
(* str(x) and f"{x}": a str is itself, any other value is its repr.        *)
(***************************************************************************)
RECURSIVE repr(_)
RECURSIVE repr_items(_)
RECURSIVE repr_pairs(_)

repr(x) ==
    CASE x.k = "str"  -> <<"'">> \o x.v \o <<"'">>
      [] x.k = "num"  -> x.v
      [] x.k = "bool" -> IF x = JTrue THEN <<"True">> ELSE <<"False">>
      [] x.k = "null" -> <<"None">>
      [] x.k = "list" -> <<"[">> \o repr_items(x.v) \o <<"]">>
      [] x.k = "dict" -> <<"{">> \o repr_pairs(x.v) \o <<"}">>

repr_items(xs) ==
    IF xs = <<>> THEN <<>>
    ELSE IF Len(xs) = 1 THEN repr(xs[1])
    ELSE repr(xs[1]) \o <<",", " ">> \o repr_items(Tail(xs))

repr_pairs(ps) ==
    LET one(p) == <<"'">> \o p.key \o <<"'", ":", " ">> \o repr(p.val)
    IN  IF ps = <<>> THEN <<>>
        ELSE IF Len(ps) = 1 THEN one(ps[1])
        ELSE one(ps[1]) \o <<",", " ">> \o repr_pairs(Tail(ps))

str(x) == IF x.k = "str" THEN x.v ELSE repr(x)

\* a or b
or(a, b) == IF truthy(a) THEN a ELSE b

(***************************************************************************)
(* parse_sse_block(lines): None (JNull) or the dict of the block.          *)
(***************************************************************************)
\* the for loop over the lines: [event_type, data_lines]
\* (mutation: the first event: line wins, later ones are passed over)
RECURSIVE scan_lines_FirstEvent(_, _, _)
scan_lines_FirstEvent(lines, event_type, data_lines) ==
    IF lines = <<>>
    THEN [event_type |-> event_type, data_lines |-> data_lines]
    ELSE LET line == lines[1]
         IN  IF startswith(line, "event:")
             THEN scan_lines_FirstEvent(Tail(lines),
                                        IF event_type = JNull
                                        THEN JStr(strip(Tail(line)))
                                        ELSE event_type,
                                        data_lines)
             ELSE IF startswith(line, "data:")
             THEN scan_lines_FirstEvent(Tail(lines), event_type,
                                        Append(data_lines, lstrip(Tail(line))))
             ELSE scan_lines_FirstEvent(Tail(lines), event_type, data_lines)

RECURSIVE scan_lines(_, _, _)
scan_lines(lines, event_type, data_lines) ==
    IF lines = <<>>
    THEN [event_type |-> event_type, data_lines |-> data_lines]
    ELSE LET line == lines[1]
         IN  IF startswith(line, "event:")
             THEN scan_lines(Tail(lines), JStr(strip(Tail(line))), data_lines)
             ELSE IF startswith(line, "data:")
             THEN scan_lines(Tail(lines), event_type,
                             Append(data_lines, lstrip(Tail(line))))
             ELSE scan_lines(Tail(lines), event_type, data_lines)

\* if event_type and "event" not in parsed: parsed["event"] = event_type
\* (mutation: the event type of the event: line replaces the payload's)
inject_event_Overwrites(obj, event_type) ==
    IF truthy(event_type)
    THEN JObj(setitem(obj.v, <<"event">>, event_type))
    ELSE obj

\* (mutation: the event type is stored whether or not there is one)
inject_event_Unguarded(obj, event_type) ==
    IF ~haskey(obj.v, <<"event">>)
    THEN JObj(setitem(obj.v, <<"event">>, event_type))
    ELSE obj

inject_event(obj, event_type) ==
    IF truthy(event_type) /\ ~haskey(obj.v, <<"event">>)
    THEN JObj(setitem(obj.v, <<"event">>, event_type))
    ELSE obj

\* except json.JSONDecodeError: the raw text is wrapped
\* (mutation: there is no except clause, the error leaves the function)
except_JSONDecodeError_Missing(data_str, event_type) ==
    [k |-> "raised", v |-> <<"JSONDecodeError">>]

except_JSONDecodeError(data_str, event_type) ==
    JObj(<<Pair("data", JStr(data_str)), Pair("event", event_type)>>)

parse_sse_block(lines) ==
    LET sc         == scan_lines(lines, JNull, <<>>)
        event_type == sc.event_type
        data_str   == strip(join(sc.data_lines))
        loaded    == json_loads(data_str)
    IN  IF data_str = <<>> THEN JNull
        ELSE IF ~loaded.ok
        THEN except_JSONDecodeError(data_str, event_type)
        ELSE IF isdict(loaded.val)
        THEN inject_event(loaded.val, event_type)
        ELSE JObj(<<Pair("data", loaded.val), Pair("event", event_type)>>)

(***************************************************************************)
(* The frames event_stream yields.  A frame is the text that is yielded:   *)
(* "data: " + json.dumps(obj) + "\n\n".  The emoji of the source's         *)
(* f-strings are written as the atoms "(tool)", "(wait)" and "(warn)".     *)
(***************************************************************************)
sse_frame(obj) == <<"data:", " ">> \o json_dumps(obj) \o <<"\n", "\n">>

\* yield "data: [DONE]\n\n"
DONE == <<"data:", " ", "[DONE]", "\n", "\n">>

\* {"error": str(e)}
error_obj(text) == JObj(<<Pair("error", JStr(text))>>)

(***************************************************************************)
(* The classification chain of event_stream for one parsed block.          *)
(* Result: [res, obj, exc].  res = "frame": obj is yielded as one frame;   *)
(* res = "none": nothing is yielded; res = "raise": an exception whose     *)
(* str() is one of exc leaves the chain.                                   *)
(***************************************************************************)
Emit(obj) == [res |-> "frame", obj |-> obj, exc |-> {}]
Skip      == [res |-> "none",  obj |-> JNull, exc |-> {}]
Raise(es) == [res |-> "raise", obj |-> JNull, exc |-> es]

\* str(e) of the exception sql_query[:80] raises for a value that cannot
\* be sliced; a dict raises TypeError before Python 3.12 and KeyError after
slice_error(x) ==
    CASE x.k = "num"  -> {<<"'int' object is not subscriptable">>}
      [] x.k = "bool" -> {<<"'bool' object is not subscriptable">>}
      [] x.k = "dict" -> {<<"unhashable type: 'slice'">>,
                          <<"slice(None, 80, None)">>}
      [] OTHER        -> {}

\* the response.chart branch: chart_spec, JNull when no location matches
chart_spec_of(event_data) ==
    LET top   == get(event_data, "chart_spec", JNull)
        chart == get(event_data, "chart", JNull)
        j     == get(event_data, "json", JNull)
    IN  IF isstr(top) THEN top
        ELSE IF isdict(chart)
        THEN IF isstr(get(chart, "chart_spec", JNull))
             THEN get(chart, "chart_spec", JNull)
             ELSE IF truthy(get(chart, "mark", JNull))
                     \/ truthy(get(chart, "encoding", JNull))
             THEN JStr(json_dumps(chart))
             ELSE JNull
        ELSE IF isdict(j)
        THEN IF truthy(get(j, "mark", JNull)) \/ truthy(get(j, "encoding", JNull))
             THEN JStr(json_dumps(j))
             ELSE JNull
        ELSE JNull

\* the response.table branch: table or json or content
\* (mutation: the fields are tried in the opposite order)
table_content_of_Reversed(event_data) ==
    or(get(event_data, "content", JNull),
       or(get(event_data, "json", JNull),
          get(event_data, "table", JNull)))

table_content_of(event_data) ==
    or(get(event_data, "table", JNull),
       or(get(event_data, "json", JNull),
          get(event_data, "content", JNull)))

\* no branch of the chain matches the event type: nothing is yielded
\* (mutation: the block is forwarded as it is)
unmatched_Forwarded(event_data) == Emit(event_data)

unmatched(event_data) == Skip

\* the response.tool_use branch: a status frame, whatever the names are
\* (mutation: a block without a tool name is passed over)
tool_use_branch_SkipsEmpty(event_data) ==
    LET tool_type == get(event_data, "tool_type", JStr(<<>>))
        tool_name == get(event_data, "tool_name", JStr(<<>>))
        tool_msg  == strip(<<"(tool)", " ", "Using tool:", " ">>
                           \o str(or(tool_name, tool_type)))
    IN  IF truthy(or(tool_name, tool_type))
        THEN Emit(JObj(<<Pair("content", JStr(tool_msg)),
                         Pair("type", S("status"))>>))
        ELSE Skip

tool_use_branch(event_data) ==
    LET tool_type == get(event_data, "tool_type", JStr(<<>>))
        tool_name == get(event_data, "tool_name", JStr(<<>>))
        tool_msg  == strip(<<"(tool)", " ", "Using tool:", " ">>
                           \o str(or(tool_name, tool_type)))
    IN  Emit(JObj(<<Pair("content", JStr(tool_msg)),
                    Pair("type", S("status"))>>))

\* the error branch: an upstream error event is told as a message
\* (mutation: the error event is raised and ends the stream)
error_branch_Aborts(event_data) ==
    Raise({str(get(event_data, "message", S("Unknown error")))})

error_branch(event_data) ==
    LET error_msg == get(event_data, "message", S("Unknown error"))
    IN  Emit(JObj(<<Pair("content",
                         JStr(<<"(warn)", " ", "Error:", " ">> \o str(error_msg))),
                    Pair("type", S("message"))>>))

classify(event_data) ==
    LET event_type == get(event_data, "event", JNull)
    IN  IF event_type = S("response.thinking.delta")
        THEN LET thinking_text == get(event_data, "text", JStr(<<>>))
             IN  IF truthy(thinking_text)
                 THEN Emit(JObj(<<Pair("content", thinking_text),
                                  Pair("type", S("thinking"))>>))
                 ELSE Skip
        ELSE IF event_type = S("response.text.delta")
        THEN LET text == get(event_data, "text", JStr(<<>>))
             IN  IF truthy(text)
                 THEN Emit(JObj(<<Pair("content", text),
                                  Pair("type", S("message"))>>))
                 ELSE Skip
        ELSE IF event_type = S("response.table")
        THEN LET table_content == table_content_of(event_data)
             IN  IF truthy(table_content)
                 THEN Emit(JObj(<<Pair("type", S("table")),
                                  Pair("data", table_content)>>))
                 ELSE Skip
        ELSE IF event_type = S("response.chart")
        THEN LET chart_spec == chart_spec_of(event_data)
             IN  IF truthy(chart_spec)
                 THEN Emit(JObj(<<Pair("type", S("chart")),
                                  Pair("chart_spec", chart_spec)>>))
                 ELSE Skip
        ELSE IF event_type = S("response.tool_use")
        THEN tool_use_branch(event_data)
        ELSE IF event_type = S("response.tool_result.analyst.delta")
        THEN LET delta == get(event_data, "delta", JObj(<<>>))
             IN  IF ~isdict(delta) THEN Skip
                 ELSE LET sql_query       == get(delta, "sql", JNull)
                          sql_explanation == get(delta, "sql_explanation", JNull)
                      IN  IF ~truthy(sql_query) THEN Skip
                          ELSE IF slice_error(sql_query) # {}
                          THEN Raise(slice_error(sql_query))
                          ELSE Emit(JObj(<<Pair("type", S("sql")),
                                           Pair("sql", sql_query),
                                           Pair("explanation", sql_explanation)>>))
        ELSE IF event_type = S("response.status")
        THEN LET status_msg == get(event_data, "message", JStr(<<>>))
             IN  IF truthy(status_msg)
                 THEN Emit(JObj(<<Pair("content",
                                       JStr(<<"(wait)", " ">> \o str(status_msg))),
                                  Pair("type", S("status"))>>))
                 ELSE Skip
        ELSE IF event_type = S("error")
        THEN error_branch(event_data)
        ELSE unmatched(event_data)

\* the non-200 branch: error_detail of a response with this status and body
error_detail(status, text) ==
    LET error_msg  == IF text # <<>> THEN text ELSE <<"HTTP", " ", status>>
        error_json == json_loads(error_msg)
    IN  IF error_json.ok /\ isdict(error_json.val)
        THEN str(get(error_json.val, "message", JStr(error_msg)))
        ELSE error_msg

(***************************************************************************)
(* Inputs of the model: the texts the environment can send.                *)
(***************************************************************************)
ev(t)      == <<"event:", " ", t>>
da(text)   == <<"data:", " ">> \o text
obj1(k1, v1)         == JObj(<<Pair(k1, v1)>>)
obj2(k1, v1, k2, v2) == JObj(<<Pair(k1, v1), Pair(k2, v2)>>)

\* the blank line that ends an SSE block
Blank == <<>>

\* data: {"text":"hi"}   (written out, without json.dumps' blanks)
DataHi == <<"data:", " ", "{", "\"", "text", "\"", ":", "\"", "hi", "\"", "}">>

\* the event: lines of the upstream protocol
ClassifiedTypes ==
    {"response.thinking.delta", "response.text.delta", "response.table",
     "response.chart", "response.tool_use",
     "response.tool_result.analyst.delta", "response.status", "error"}

UnclassifiedTypes == {"response.tool_result", "done"}

EventLines == {ev(t) : t \in ClassifiedTypes \cup UnclassifiedTypes}

\* the payloads of the data: lines
Payloads ==
    { obj1("text", S("hi")),
      obj1("text", JStr(<<>>)),
      JObj(<<>>),
      obj2("table", S("T"), "content", S("C")),
      obj2("table", JStr(<<>>), "json", S("J")),
      obj2("json", JNull, "content", JArr(<<JNum("5")>>)),
      obj1("chart_spec", S("spec")),
      obj1("chart", obj1("mark", S("bar"))),
      obj1("chart", obj2("mark", S("bar"), "encoding", obj1("x", S("f")))),
      obj1("chart", obj1("chart_spec", S("nested"))),
      obj2("chart_spec", S("spec"), "chart", obj1("mark", S("bar"))),
      obj1("json", obj1("encoding", S("x"))),
      obj2("chart", obj1("title", S("t")), "json", obj1("mark", S("bar"))),
      obj2("tool_name", S("search"), "tool_type", S("cortex_search")),
      obj1("tool_type", S("cortex_search")),
      obj2("tool_name", JStr(<<>>), "tool_type", JStr(<<>>)),
      obj1("delta", obj2("sql", S("SELECT"), "sql_explanation", S("why"))),
      obj1("delta", obj1("sql", S("SELECT"))),
      obj1("delta", obj1("sql", JNum("5"))),
      obj1("delta", S("x")),
      obj1("message", S("m")),
      obj2("event", S("response.text.delta"), "text", S("own")),
      JNum("5") }

DataLines == {da(json_dumps(x)) : x \in Payloads}
             \cup {DataHi, da(<<"not-json">>)}

\* one block: an optional event: line, a data: line, the blank line
BlockScripts ==
    {<<e, d, Blank>> : e \in EventLines, d \in DataLines}
    \cup {<<d, Blank>> : d \in DataLines}

\* lines that are combined freely, up to MaxLines of them
CoreLines ==
    { Blank,
      ev("response.text.delta"),
      DataHi,
      da(json_dumps(obj2("event", S("response.status"), "message", S("m")))),
      da(json_dumps(obj2("event", S("response.tool_result.analyst.delta"),
                         "delta", obj1("sql", JNum("5"))))) }

CoreScripts == UNION {[1..n -> CoreLines] : n \in 0..MaxLines}

\* two blocks in a row, the first with a comment line
PairBlocks ==
    { <<ev("done"), DataHi, Blank>>,
      <<<<":", " ", "keep-alive">>, ev("response.text.delta"), DataHi, Blank>>,
      <<ev("response.tool_use"),
        da(json_dumps(obj1("tool_name", S("search")))), Blank>>,
      <<ev("response.status"), da(<<"not-json">>), Blank>>,
      <<ev("response.tool_result.analyst.delta"),
        da(json_dumps(obj1("delta", obj1("sql", JTrue)))), Blank>>,
      <<ev("error"), da(json_dumps(obj1("message", S("m")))), Blank>> }

PairScripts == {b1 \o b2 : b1 \in PairBlocks, b2 \in PairBlocks}

\* the line sequences an upstream 200 response can carry
Scripts == CoreScripts \cup BlockScripts \cup PairScripts

\* upstream statuses other than 200, and the bodies sent with them
ErrorStatuses == {"500", "503"}
ErrorBodies ==
    { json_dumps(obj1("message", S("rate limited"))),
      json_dumps(obj1("code", S("390144"))),
      json_dumps(JNum("5")),
      <<"Service", " ", "Unavailable">>,
      <<>> }

\* str(e) of the exceptions of the external calls
PostErrors  == {<<"Read timed out">>}
ReadErrors  == {<<"Connection broken">>}
CloseErrors == {<<"Failed to close session">>}

\* the session_id cookie of the request: absent (None), empty, or a value
Cookies == {JNull, JStr(<<>>), S("s1"), S("s2"), S("s3"), S("s4")}

\* the user info of a session
Alice == obj1("email", S("alice@example.com"))

\* a session as callback stores it; user is None when the userinfo call
\* failed, access_token is None when the token response carried none,
\* created is time.time() of the callback
Session(user, access_token, created) ==
    [user |-> user, access_token |-> access_token, created |-> created]

\* session stores the callbacks can have built
SessionStores ==
    { <<>>,
      [sid \in {<<"s1">>, <<"s2">>, <<"s3">>} |->
          CASE sid = <<"s1">> -> Session(Alice, S("token"), 0)
            [] sid = <<"s2">> -> Session(JNull, S("token"), 0)
            [] sid = <<"s3">> -> Session(Alice, JNull, 0)] }

\* request bodies of POST /api/cortex/agent/chat
body4(db, sch, name, msg) ==
    JObj(<<Pair("agent_database", db), Pair("agent_schema", sch),
           Pair("agent_name", name), Pair("message", msg)>>)

RequestBodies ==
    { json_dumps(body4(S("DB"), S("SC"), S("AGENT"), S("hello"))),
      json_dumps(body4(S("DB"), S("SC"), S("AGENT"), JStr(<<>>))),
      json_dumps(body4(S("DB"), JNull, S("AGENT"), S("hello"))),
      json_dumps(obj2("agent_name", S("AGENT"), "message", S("hello"))),
      json_dumps(body4(S("DB"), S("SC"), JNum("5"), S("hello"))),
      json_dumps(JArr(<<JNum("5")>>)),
      <<"not-json">> }

(***************************************************************************)
(* State of one chat turn.                                                 *)
(***************************************************************************)
VARIABLES
    user_sessions,  \* the authenticated-session store
    request,        \* the chat request: its session_id cookie and its body
    pc,             \* where the turn is: see the actions
    http_status,    \* status line answered to the browser, 0 before it
    conn,           \* sc.connect(): "none" not called, "failed", "open"
    close_calls,    \* number of conn.close() invocations
    post_calls,     \* number of upstream agent POSTs issued
    status_code,    \* response.status_code, "" before a response exists
    response_text,  \* response.text of a response that is not a 200
    upstream,       \* lines of the upstream body not yet read
    consumed,       \* lines iter_lines has returned so far (history)
    buffer_lines,   \* event_stream's buffer_lines
    frames,         \* what event_stream has yielded so far
    disconnected,   \* the browser went away during the turn
    call_lines,     \* the argument of a call of parse_sse_block
    parsed,         \* what that call returned, Pending before it returns
    handled,        \* what the loop did with the returned block
    now,            \* time.time(), in seconds
    oauth_sessions, \* the pending-auth store
    served,         \* the last request served against the stores
    issued,         \* the state tokens and session ids drawn so far
    loop,           \* the task the event loop thread is running, or "none"
    turn,           \* the concurrent chat turns of the event loop
    endpoint        \* the JSON endpoint a request runs, and what is left
                    \* of the content of the analyst's answer

\* the variables of one chat turn, apart from the session store
relay_vars == <<request, pc, http_status, conn, close_calls, post_calls,
                status_code, response_text, upstream, consumed, buffer_lines,
                frames, disconnected>>

\* the variables of a call of parse_sse_block
parser_vars == <<call_lines, parsed, handled>>

\* the variables of the session stores, apart from user_sessions
store_vars == <<now, oauth_sessions, served, issued>>

\* the variables of the event loop
loop_vars == <<loop, turn>>

\* the variable of the JSON endpoints
endpoint_vars == <<endpoint>>

\* what a chat turn leaves alone
aside == <<parser_vars, store_vars, loop_vars, endpoint_vars>>

vars ==
    <<user_sessions, relay_vars, parser_vars, store_vars, loop_vars,
      endpoint_vars>>

\* what the generator leaves alone while it runs
gen_frame == <<user_sessions, request, http_status, conn>>

\* parse_sse_block has not returned yet
Pending == [k |-> "pending", v |-> <<>>]

\* no request has been served against the stores yet
NoRequest ==
    [route |-> "none", outcome |-> "none", key |-> <<>>, age |-> 0,
     removed |-> {}]

\* a chat turn before its request arrives
relay_idle ==
    /\ request = [cookie |-> JNull, body |-> <<>>]
    /\ pc = "idle"
    /\ http_status = 0
    /\ conn = "none"
    /\ close_calls = 0
    /\ post_calls = 0
    /\ status_code = ""
    /\ response_text = <<>>
    /\ upstream = <<>>
    /\ consumed = <<>>
    /\ buffer_lines = <<>>
    /\ frames = <<>>
    /\ disconnected = FALSE

\* no call of parse_sse_block is under way
parser_idle ==
    /\ call_lines = <<>>
    /\ parsed = Pending
    /\ handled = Pending

\* the process has just started: both stores are empty
stores_idle ==
    /\ now = 0
    /\ oauth_sessions = <<>>
    /\ served = NoRequest
    /\ issued = {}

\* no chat turn is on the event loop
loop_idle ==
    /\ loop = "none"
    /\ turn = <<>>

\* no JSON endpoint has been requested
NoEndpoint == [name |-> "none", content |-> <<>>]

endpoint_idle == endpoint = NoEndpoint

Init ==
    /\ user_sessions \in SessionStores
    /\ relay_idle
    /\ parser_idle
    /\ stores_idle
    /\ loop_idle
    /\ endpoint_idle

(***************************************************************************)
(* The dependencies get_current_user and get_access_token.                 *)
(***************************************************************************)
\* get_session_data(session_id): the session, or None
get_session_data(session_id) ==
    IF ~truthy(session_id) THEN JNull
    ELSE IF session_id.v \in DOMAIN user_sessions
    THEN JObj(<<Pair("user", user_sessions[session_id.v].user),
                Pair("access_token", user_sessions[session_id.v].access_token)>>)
    ELSE JNull

\* (mutation: the check of the session's user is missing)
get_current_user_fails_NoUserCheck(cookie) ==
    \/ ~truthy(cookie)
    \/ ~truthy(get_session_data(cookie))

\* get_current_user raises HTTPException(401)
get_current_user_fails(cookie) ==
    \/ ~truthy(cookie)
    \/ ~truthy(get_session_data(cookie))
    \/ ~truthy(get(get_session_data(cookie), "user", JNull))

\* get_access_token raises HTTPException(401)
get_access_token_fails(cookie) ==
    \/ ~truthy(cookie)
    \/ ~truthy(get_session_data(cookie))
    \/ ~truthy(get(get_session_data(cookie), "access_token", JNull))

(***************************************************************************)
(* agent_chat_stream, up to the return of the StreamingResponse.           *)
(***************************************************************************)
\* body = await request.json() raises, or body.get does
body_raises(text) == ~json_loads(text).ok \/ ~isdict(json_loads(text).val)

\* (mutation: the message is not among the required fields)
all_fields_IgnoresMessage(text) ==
    LET body == json_loads(text).val
    IN  /\ truthy(get(body, "agent_database", JNull))
        /\ truthy(get(body, "agent_schema", JNull))
        /\ truthy(get(body, "agent_name", JNull))

\* all([agent_database, agent_schema, agent_name, message])
all_fields(text) ==
    LET body == json_loads(text).val
    IN  /\ truthy(get(body, "agent_database", JNull))
        /\ truthy(get(body, "agent_schema", JNull))
        /\ truthy(get(body, "agent_name", JNull))
        /\ truthy(get(body, "message", JNull))

\* quote(agent_name) raises TypeError unless agent_name is a str
quote_raises(text) == ~isstr(get(json_loads(text).val, "agent_name", JNull))

\* (mutation: an error answer also evicts the session of the cookie)
Answer_EvictsSession(cookie, text, code, connect) ==
    /\ request' = [cookie |-> cookie, body |-> text]
    /\ pc' = "http_error"
    /\ http_status' = code
    /\ conn' = connect
    /\ user_sessions' = [k \in DOMAIN user_sessions \ {cookie.v} |->
                            user_sessions[k]]
    /\ UNCHANGED <<aside, close_calls, post_calls, status_code,
                   response_text, upstream, consumed, buffer_lines, frames, disconnected>>

\* the request is answered with an HTTP error and no stream
Answer(cookie, text, code, connect) ==
    /\ request' = [cookie |-> cookie, body |-> text]
    /\ pc' = "http_error"
    /\ http_status' = code
    /\ conn' = connect
    /\ UNCHANGED <<aside, user_sessions, close_calls, post_calls, status_code,
                   response_text, upstream, consumed, buffer_lines, frames, disconnected>>

\* a dependency raised 401: the handler body does not run
Unauthenticated ==
    /\ pc = "idle"
    /\ \E cookie \in Cookies, text \in RequestBodies :
          /\ get_current_user_fails(cookie) \/ get_access_token_fails(cookie)
          /\ Answer(cookie, text, 401, "none")

\* request.json() or body.get raised: except Exception -> 500
BadBody ==
    /\ pc = "idle"
    /\ \E cookie \in Cookies, text \in RequestBodies :
          /\ ~get_current_user_fails(cookie)
          /\ ~get_access_token_fails(cookie)
          /\ body_raises(text)
          /\ Answer(cookie, text, 500, "none")

\* a required field is missing or empty: 400
MissingFields ==
    /\ pc = "idle"
    /\ \E cookie \in Cookies, text \in RequestBodies :
          /\ ~get_current_user_fails(cookie)
          /\ ~get_access_token_fails(cookie)
          /\ ~body_raises(text)
          /\ ~all_fields(text)
          /\ Answer(cookie, text, 400, "none")

\* sc.connect raised: 401
ConnectFails ==
    /\ pc = "idle"
    /\ \E cookie \in Cookies, text \in RequestBodies :
          /\ ~get_current_user_fails(cookie)
          /\ ~get_access_token_fails(cookie)
          /\ ~body_raises(text)
          /\ all_fields(text)
          /\ Answer(cookie, text, 401, "failed")

\* sc.connect returned, then quote(agent_name) raised: except Exception -> 500
QuoteRaises ==
    /\ pc = "idle"
    /\ \E cookie \in Cookies, text \in RequestBodies :
          /\ ~get_current_user_fails(cookie)
          /\ ~get_access_token_fails(cookie)
          /\ ~body_raises(text)
          /\ all_fields(text)
          /\ quote_raises(text)
          /\ Answer(cookie, text, 500, "open")

\* return StreamingResponse(event_stream(), ...): the generator object
\* exists, its body has not started
ReturnStreamingResponse ==
    /\ pc = "idle"
    /\ \E cookie \in Cookies, text \in RequestBodies :
          /\ ~get_current_user_fails(cookie)
          /\ ~get_access_token_fails(cookie)
          /\ ~body_raises(text)
          /\ all_fields(text)
          /\ ~quote_raises(text)
          /\ request' = [cookie |-> cookie, body |-> text]
    /\ pc' = "created"
    /\ http_status' = 200
    /\ conn' = "open"
    /\ UNCHANGED <<aside, user_sessions, close_calls, post_calls, status_code,
                   response_text, upstream, consumed, buffer_lines, frames, disconnected>>

(***************************************************************************)
(* event_stream.  The generator is suspended at each yield and at each     *)
(* await asyncio.sleep(0); between two suspensions it runs without         *)
(* interruption.  pc names the suspension, or "reading" while the for      *)
(* loop is about to ask iter_lines for the next line.                      *)
(***************************************************************************)
\* (mutation: the frame is put in front of the frames already yielded)
yield_InFront(frame) == frames' = <<frame>> \o frames

yield(frame) == frames' = Append(frames, frame)

\* except Exception as e: yield the error frame
except(e) ==
    /\ yield(sse_frame(error_obj(e)))
    /\ pc' = "yield_exc_error"

\* requests.post raised (timeout, connection error)
PostRaises ==
    /\ pc = "created"
    /\ post_calls' = post_calls + 1
    /\ \E e \in PostErrors : except(e)
    /\ UNCHANGED <<aside, gen_frame, disconnected, close_calls, status_code, response_text,
                   upstream, consumed, buffer_lines>>

\* response.status_code != 200: yield the error frame
PostRejected ==
    /\ pc = "created"
    /\ post_calls' = post_calls + 1
    /\ \E st \in ErrorStatuses, text \in ErrorBodies :
          /\ status_code' = st
          /\ response_text' = text
          /\ yield(sse_frame(error_obj(error_detail(st, text))))
    /\ pc' = "yield_rej_error"
    /\ UNCHANGED <<aside, gen_frame, disconnected, close_calls, upstream, consumed,
                   buffer_lines>>

\* a 200: the body will be read line by line
PostAccepted ==
    /\ pc = "created"
    /\ post_calls' = post_calls + 1
    /\ status_code' = "200"
    /\ upstream' \in Scripts
    /\ pc' = "reading"
    /\ UNCHANGED <<aside, gen_frame, disconnected, close_calls, response_text, consumed,
                   buffer_lines, frames>>

\* (mutation: the non-200 branch returns without the sentinel)
RejectedDone_NoSentinel ==
    /\ pc = "yield_rej_error"
    /\ pc' = "yield_rej_done"
    /\ UNCHANGED <<aside, gen_frame, disconnected, close_calls, post_calls,
                   status_code, response_text, upstream, consumed,
                   buffer_lines, frames>>

\* yield "data: [DONE]" after the error frame of the non-200 branch
RejectedDone ==
    /\ pc = "yield_rej_error"
    /\ yield(DONE)
    /\ pc' = "yield_rej_done"
    /\ UNCHANGED <<aside, gen_frame, disconnected, close_calls, post_calls, status_code,
                   response_text, upstream, consumed, buffer_lines>>

\* conn.close(); return; then the finally block closes once more
RejectedClose ==
    /\ pc = "yield_rej_done"
    /\ close_calls' = close_calls + 2
    /\ pc' = "finished"
    /\ UNCHANGED <<aside, gen_frame, disconnected, post_calls, status_code, response_text,
                   upstream, consumed, buffer_lines, frames>>

\* conn.close() of the non-200 branch raised: it is inside the try
RejectedCloseRaises ==
    /\ pc = "yield_rej_done"
    /\ close_calls' = close_calls + 1
    /\ \E e \in CloseErrors : except(e)
    /\ UNCHANGED <<aside, gen_frame, disconnected, post_calls, status_code, response_text,
                   upstream, consumed, buffer_lines>>

\* the line iter_lines returns next, after line.strip('\n')
next_line == strip_nl(Head(upstream))

\* the block a blank line completes: parse_sse_block(buffer_lines)
event_data == parse_sse_block(buffer_lines)

\* a blank line makes the loop classify a block
block_complete ==
    /\ next_line = <<>>
    /\ buffer_lines # <<>>
    /\ truthy(event_data)

take_line ==
    /\ pc = "reading"
    /\ upstream # <<>>
    /\ consumed' = Append(consumed, Head(upstream))
    /\ upstream' = Tail(upstream)

\* a line that is not blank: buffer_lines.append(line)
BufferLine ==
    /\ take_line
    /\ next_line # <<>>
    /\ buffer_lines' = Append(buffer_lines, next_line)
    /\ pc' = "reading"
    /\ UNCHANGED <<aside, gen_frame, disconnected, close_calls, post_calls, status_code,
                   response_text, frames>>

\* a blank line that yields nothing: no block, or a block of no frame
SkipBlock ==
    /\ take_line
    /\ next_line = <<>>
    /\ block_complete => classify(event_data).res = "none"
    /\ buffer_lines' = <<>>
    /\ pc' = "reading"
    /\ UNCHANGED <<aside, gen_frame, disconnected, close_calls, post_calls, status_code,
                   response_text, frames>>

\* a blank line whose block is classified to a frame: yield it
YieldFrame ==
    /\ take_line
    /\ block_complete
    /\ classify(event_data).res = "frame"
    /\ buffer_lines' = <<>>
    /\ yield(sse_frame(classify(event_data).obj))
    /\ pc' = "yield_frame"
    /\ UNCHANGED <<aside, gen_frame, disconnected, close_calls, post_calls, status_code,
                   response_text>>

\* a blank line whose block makes the chain raise
ClassifyRaises ==
    /\ take_line
    /\ block_complete
    /\ classify(event_data).res = "raise"
    /\ buffer_lines' = <<>>
    /\ \E e \in classify(event_data).exc : except(e)
    /\ UNCHANGED <<aside, gen_frame, disconnected, close_calls, post_calls, status_code,
                   response_text>>

\* (mutation: a failed read makes the relay issue the POST again)
ReadRaises_Retries ==
    /\ pc = "reading"
    /\ pc' = "created"
    /\ UNCHANGED <<aside, gen_frame, disconnected, close_calls, post_calls,
                   status_code, response_text, upstream, consumed,
                   buffer_lines, frames>>

\* iter_lines raised (connection broken, read timeout)
ReadRaises ==
    /\ pc = "reading"
    /\ \E e \in ReadErrors : except(e)
    /\ UNCHANGED <<aside, gen_frame, disconnected, close_calls, post_calls, status_code,
                   response_text, upstream, consumed, buffer_lines>>

\* iter_lines is exhausted: yield "data: [DONE]"
EndOfStream ==
    /\ pc = "reading"
    /\ upstream = <<>>
    /\ yield(DONE)
    /\ pc' = "yield_done"
    /\ UNCHANGED <<aside, gen_frame, disconnected, close_calls, post_calls, status_code,
                   response_text, upstream, consumed, buffer_lines>>

\* resumed after a frame: await asyncio.sleep(0)
AfterFrame ==
    /\ pc = "yield_frame"
    /\ pc' = "sleep"
    /\ UNCHANGED <<aside, gen_frame, disconnected, close_calls, post_calls, status_code,
                   response_text, upstream, consumed, buffer_lines, frames>>

\* resumed after the sleep: back to the for loop
AfterSleep ==
    /\ pc = "sleep"
    /\ pc' = "reading"
    /\ UNCHANGED <<aside, gen_frame, disconnected, close_calls, post_calls, status_code,
                   response_text, upstream, consumed, buffer_lines, frames>>

\* finally: conn.close(), whatever it raises is swallowed
finally ==
    /\ close_calls' = close_calls + 1

\* resumed after the final [DONE]: the try block ends, finally runs
AfterDone ==
    /\ pc = "yield_done"
    /\ finally
    /\ pc' = "finished"
    /\ UNCHANGED <<aside, gen_frame, disconnected, post_calls, status_code, response_text,
                   upstream, consumed, buffer_lines, frames>>

\* (mutation: the except block ends without the sentinel)
ExceptDone_NoSentinel ==
    /\ pc = "yield_exc_error"
    /\ pc' = "yield_exc_done"
    /\ UNCHANGED <<aside, gen_frame, disconnected, close_calls, post_calls,
                   status_code, response_text, upstream, consumed,
                   buffer_lines, frames>>

\* resumed after the error frame of the except block: yield "data: [DONE]"
ExceptDone ==
    /\ pc = "yield_exc_error"
    /\ yield(DONE)
    /\ pc' = "yield_exc_done"
    /\ UNCHANGED <<aside, gen_frame, disconnected, close_calls, post_calls, status_code,
                   response_text, upstream, consumed, buffer_lines>>

\* resumed after the [DONE] of the except block: finally runs
AfterExceptDone ==
    /\ pc = "yield_exc_done"
    /\ finally
    /\ pc' = "finished"
    /\ UNCHANGED <<aside, gen_frame, disconnected, post_calls, status_code, response_text,
                   upstream, consumed, buffer_lines, frames>>

(***************************************************************************)
(* The browser disconnects.  The relay learns of it only where it is       *)
(* suspended: there the response is torn down and GeneratorExit (at a      *)
(* yield) or CancelledError (at the sleep) is thrown into the generator;   *)
(* neither is an Exception, so only the finally block runs.  Until then    *)
(* the generator runs on.  Between sc.connect and the first resumption of  *)
(* the generator the handler does not suspend, so the generator of a       *)
(* connected turn always starts.                                           *)
(***************************************************************************)
Suspended == {"yield_frame", "sleep", "yield_done", "yield_rej_error",
              "yield_rej_done", "yield_exc_error", "yield_exc_done"}

\* the browser closes the connection while the turn is running
BrowserDisconnects ==
    /\ pc \in Suspended \cup {"created", "reading"}
    /\ ~disconnected
    /\ disconnected' = TRUE
    /\ UNCHANGED <<aside, gen_frame, pc, close_calls, post_calls, status_code,
                   response_text, upstream, consumed, buffer_lines, frames>>

\* (mutation: the generator is dropped without unwinding to finally)
DeliverDisconnect_NoFinally ==
    /\ pc \in Suspended
    /\ disconnected
    /\ pc' = "cancelled"
    /\ UNCHANGED <<aside, gen_frame, disconnected, close_calls, post_calls,
                   status_code, response_text, upstream, consumed,
                   buffer_lines, frames>>

\* the disconnect reaches the suspended generator
DeliverDisconnect ==
    /\ pc \in Suspended
    /\ disconnected
    /\ finally
    /\ pc' = "cancelled"
    /\ UNCHANGED <<aside, gen_frame, disconnected, post_calls, status_code,
                   response_text, upstream, consumed, buffer_lines, frames>>

Next ==
    \/ Unauthenticated
    \/ BadBody
    \/ MissingFields
    \/ ConnectFails
    \/ QuoteRaises
    \/ ReturnStreamingResponse
    \/ PostRaises
    \/ PostRejected
    \/ PostAccepted
    \/ RejectedDone
    \/ RejectedClose
    \/ RejectedCloseRaises
    \/ BufferLine
    \/ SkipBlock
    \/ YieldFrame
    \/ ClassifyRaises
    \/ ReadRaises
    \/ EndOfStream
    \/ AfterFrame
    \/ AfterSleep
    \/ AfterDone
    \/ ExceptDone
    \/ AfterExceptDone
    \/ BrowserDisconnects
    \/ DeliverDisconnect

Spec == Init /\ [][Next]_vars

(***************************************************************************)
(* parse_sse_block on its own: the function is called with a group of      *)
(* lines, returns, and the loop of event_stream handles what it returned.  *)
(***************************************************************************)
\* the lines a group is made of; the loop hands over no empty line
ParserLines ==
    { ev("response.text.delta"),
      <<"event:", "error", " ">>,
      <<"event:">>,
      DataHi,
      da(<<"not-json">>),
      <<"data:", "not-json", " ">>,
      <<"data:">>,
      da(<<"{", "\"", "text", "\"", ":">>),
      da(<<"\"", "hi", "\"", "}">>),
      da(json_dumps(JArr(<<JNum("5")>>))),
      da(json_dumps(obj2("event", S("response.status"), "message", S("m")))),
      da(json_dumps(obj2("tool_name", JStr(<<>>), "tool_type", JStr(<<>>)))),
      da(json_dumps(JObj(<<>>))),
      <<":", " ", "keep-alive">>,
      <<"id:", " ", "7">> }

BlockInputs == UNION {[1..n -> ParserLines] : n \in 0..MaxBlockLines}

ParserInit ==
    /\ user_sessions = <<>>
    /\ relay_idle
    /\ call_lines \in BlockInputs
    /\ parsed = Pending
    /\ handled = Pending
    /\ stores_idle
    /\ loop_idle
    /\ endpoint_idle

\* event_data = parse_sse_block(buffer_lines)
ParseBlock ==
    /\ parsed = Pending
    /\ parsed' = parse_sse_block(call_lines)
    /\ UNCHANGED <<call_lines, handled, user_sessions, relay_vars, store_vars,
                   loop_vars, endpoint_vars>>

\* if event_data: the classification chain; else nothing
HandleBlock ==
    /\ parsed = JNull \/ isdict(parsed)
    /\ handled = Pending
    /\ handled' = IF truthy(parsed) THEN classify(parsed) ELSE Skip
    /\ UNCHANGED <<call_lines, parsed, user_sessions, relay_vars, store_vars,
                   loop_vars, endpoint_vars>>

ParserNext ==
    \/ ParseBlock
    \/ HandleBlock

ParserSpec == ParserInit /\ [][ParserNext]_vars

(***************************************************************************)
(* The session stores: /login, /callback, /logout and the requests that    *)
(* look a session up, while time passes.                                   *)
(***************************************************************************)
\* cleanup_old_sessions: age limits of the two stores, in seconds
PendingTTL == 600
SessionTTL == 3600

\* the time that passes between two requests
TickSteps == {600, 3001}

\* values of secrets.token_urlsafe(32) and of str(uuid.uuid4()); a value is
\* never drawn twice
OAuthStates == {<<"st1">>, <<"st2">>}
SessionIds  == {<<"s1">>, <<"s2">>}

\* the session_id cookies the requests against the stores present: absent,
\* empty, or an id (of a session, of one that is gone, or of none yet)
Presented == {JNull, JStr(<<>>), S("s1"), S("s2")}

\* del d[k] for the keys of ks
drop(d, ks) == [k \in DOMAIN d \ ks |-> d[k]]

\* d[key] = val
put(d, key, val) == [k \in DOMAIN d \cup {key} |-> IF k = key THEN val ELSE d[k]]

\* v.get('created', 0)
created_of(v) == IF "created" \in DOMAIN v THEN v.created ELSE 0

\* cleanup_old_sessions(): the keys it deletes from a store with this limit
expired(d, ttl) == {k \in DOMAIN d : now - created_of(d[k]) > ttl}

\* cleanup_old_sessions(): what it leaves of a store with this age limit
\* (mutation: an entry is deleted as soon as its age reaches the limit)
swept_AtLimit(d, ttl) ==
    drop(d, {k \in DOMAIN d : now - created_of(d[k]) >= ttl})

swept(d, ttl) == drop(d, expired(d, ttl))

StoreInit ==
    /\ user_sessions = <<>>
    /\ relay_idle
    /\ parser_idle
    /\ stores_idle
    /\ loop_idle
    /\ endpoint_idle

\* what the store requests leave alone
store_frame == <<relay_vars, parser_vars, loop_vars, endpoint_vars>>

\* GET /login: sweep both stores, then store a fresh pending-auth entry
login ==
    /\ \E state \in OAuthStates \ issued :
          /\ oauth_sessions' = put(swept(oauth_sessions, PendingTTL), state,
                                   [state |-> state, created |-> now])
          /\ issued' = issued \cup {state}
          /\ served' = [route |-> "login", outcome |-> "302", key |-> state,
                        age |-> 0,
                        removed |->
                           (DOMAIN oauth_sessions
                              \ DOMAIN swept(oauth_sessions, PendingTTL))
                           \cup (DOMAIN user_sessions
                                   \ DOMAIN swept(user_sessions, SessionTTL))]
    /\ user_sessions' = swept(user_sessions, SessionTTL)
    /\ UNCHANGED <<now, store_frame>>

\* (mutation: a callback with an unknown state stores a session all the same)
callback_unknown_StoresSession ==
    /\ \E state \in OAuthStates \ DOMAIN oauth_sessions,
          session_id \in SessionIds \ issued :
          /\ user_sessions' = put(user_sessions, session_id,
                                  Session(Alice, S("token"), now))
          /\ issued' = issued \cup {session_id}
          /\ served' = [route |-> "callback", outcome |-> "400", key |-> state,
                        age |-> 0, removed |-> {}]
    /\ UNCHANGED <<now, oauth_sessions, store_frame>>

\* GET /callback with a state that names no pending-auth entry: 400
callback_unknown ==
    /\ \E state \in OAuthStates \ DOMAIN oauth_sessions :
          served' = [route |-> "callback", outcome |-> "400", key |-> state,
                     age |-> 0, removed |-> {}]
    /\ UNCHANGED <<now, oauth_sessions, user_sessions, issued, store_frame>>

\* GET /callback: the code is exchanged, the session stored under a fresh
\* id and the pending-auth entry deleted
callback ==
    /\ \E state \in DOMAIN oauth_sessions,
          session_id \in SessionIds \ issued,
          user_info \in {Alice, JNull} :
          /\ user_sessions' = put(user_sessions, session_id,
                                  Session(user_info, S("token"), now))
          /\ oauth_sessions' = drop(oauth_sessions, {state})
          /\ issued' = issued \cup {session_id}
          /\ served' = [route |-> "callback", outcome |-> "302", key |-> state,
                        age |-> now - oauth_sessions[state].created,
                        removed |-> {}]
    /\ UNCHANGED <<now, store_frame>>

\* (mutation: a failed exchange leaves the pending-auth entry in place)
callback_fails_KeepsState ==
    /\ \E state \in DOMAIN oauth_sessions :
          served' = [route |-> "callback", outcome |-> "400", key |-> state,
                     age |-> now - oauth_sessions[state].created,
                     removed |-> {}]
    /\ UNCHANGED <<now, oauth_sessions, user_sessions, issued, store_frame>>

\* GET /callback: the token exchange or the userinfo call raised; the entry
\* is deleted, 400
callback_fails ==
    /\ \E state \in DOMAIN oauth_sessions :
          /\ oauth_sessions' = drop(oauth_sessions, {state})
          /\ served' = [route |-> "callback", outcome |-> "400", key |-> state,
                        age |-> now - oauth_sessions[state].created,
                        removed |-> {}]
    /\ UNCHANGED <<now, user_sessions, issued, store_frame>>

\* the session id a cookie carries ("" when there is no cookie)
cookie_key(cookie) == IF isstr(cookie) THEN cookie.v ELSE <<>>

\* (mutation: logout empties the session store)
logout_ClearsAll ==
    /\ \E cookie \in Presented :
          /\ user_sessions' =
                IF truthy(cookie) /\ cookie.v \in DOMAIN user_sessions
                THEN <<>>
                ELSE user_sessions
          /\ served' = [route |-> "logout", outcome |-> "302",
                        key |-> cookie_key(cookie), age |-> 0, removed |-> {}]
    /\ UNCHANGED <<now, oauth_sessions, issued, store_frame>>

\* GET /logout: the session of the cookie is deleted, if there is one
logout ==
    /\ \E cookie \in Presented :
          /\ user_sessions' =
                IF truthy(cookie) /\ cookie.v \in DOMAIN user_sessions
                THEN drop(user_sessions, {cookie.v})
                ELSE user_sessions
          /\ served' = [route |-> "logout", outcome |-> "302",
                        key |-> cookie_key(cookie), age |-> 0, removed |-> {}]
    /\ UNCHANGED <<now, oauth_sessions, issued, store_frame>>

\* the age of the session a cookie resolves to
session_age(cookie) == now - user_sessions[cookie.v].created

\* POST /api/cortex/agent/chat and GET /api/agents: the two dependencies
\* resolve the session of the cookie, or answer 401
api_request ==
    /\ \E route \in {"chat", "agents"}, cookie \in Presented :
          served' = IF get_current_user_fails(cookie)
                       \/ get_access_token_fails(cookie)
                    THEN [route |-> route, outcome |-> "401",
                          key |-> cookie_key(cookie), age |-> 0,
                          removed |-> {}]
                    ELSE [route |-> route, outcome |-> "resolved",
                          key |-> cookie_key(cookie),
                          age |-> session_age(cookie), removed |-> {}]
    /\ UNCHANGED <<now, oauth_sessions, user_sessions, issued, store_frame>>

\* GET /: the chat page for a session with a user, else the landing page
home ==
    /\ \E cookie \in Presented :
          served' = IF truthy(cookie)
                       /\ truthy(get(get_session_data(cookie), "user", JNull))
                    THEN [route |-> "home", outcome |-> "resolved",
                          key |-> cookie_key(cookie),
                          age |-> session_age(cookie), removed |-> {}]
                    ELSE [route |-> "home", outcome |-> "landing",
                          key |-> cookie_key(cookie), age |-> 0,
                          removed |-> {}]
    /\ UNCHANGED <<now, oauth_sessions, user_sessions, issued, store_frame>>

\* time passes
Tick ==
    /\ \E d \in TickSteps :
          /\ now + d <= MaxTime
          /\ now' = now + d
    /\ UNCHANGED <<oauth_sessions, user_sessions, served, issued, store_frame>>

StoreNext ==
    \/ login
    \/ callback_unknown
    \/ callback
    \/ callback_fails
    \/ logout
    \/ api_request
    \/ home
    \/ Tick

StoreSpec == StoreInit /\ [][StoreNext]_vars

(***************************************************************************)
(* Concurrent chat turns.  uvicorn.run serves the app on one event loop    *)
(* in one thread; every turn is a task of that loop.  A task keeps the     *)
(* thread until it suspends at an await or at a yield of its generator.    *)
(* requests.post and the iter_lines iterator are synchronous calls: the    *)
(* task that waits in them keeps the thread.  Of a turn the model keeps    *)
(* where it is, how many upstream lines it has still to read and how many  *)
(* frames it has yielded.                                                  *)
(***************************************************************************)
Turns == {"turn1", "turn2"}

\* where a turn gives the thread back: the yields and the sleep
TurnSuspended == {"queued", "yield_frame", "sleep", "yield_done"}

\* where a turn waits for the upstream inside a synchronous call
TurnBlocking == {"post", "read"}

LoopInit ==
    /\ user_sessions = <<>>
    /\ relay_idle
    /\ parser_idle
    /\ stores_idle
    /\ endpoint_idle
    /\ loop = "none"
    /\ turn \in [Turns -> {[pc |-> "queued", left |-> n, frames |-> 0] :
                             n \in 0..MaxTurnLines}]

\* what the event loop leaves alone
loop_frame ==
    <<user_sessions, relay_vars, parser_vars, store_vars, endpoint_vars>>

\* the loop starts the task of a request: the handler runs up to the
\* StreamingResponse, the generator starts and calls requests.post
StartTurn(t) ==
    /\ loop = "none"
    /\ turn[t].pc = "queued"
    /\ turn' = [turn EXCEPT ![t].pc = "post"]
    /\ loop' = t
    /\ UNCHANGED loop_frame

\* the upstream answers the POST: the for loop asks for the first line
PostReturns(t) ==
    /\ loop = t
    /\ turn[t].pc = "post"
    /\ turn' = [turn EXCEPT ![t].pc = "read"]
    /\ UNCHANGED <<loop, loop_frame>>

\* a line arrives that completes no frame: the loop asks for the next one
LineBuffered(t) ==
    /\ loop = t
    /\ turn[t].pc = "read"
    /\ turn[t].left > 0
    /\ turn' = [turn EXCEPT ![t].left = @ - 1]
    /\ UNCHANGED <<loop, loop_frame>>

\* a blank line arrives that completes a frame: the generator yields it
LineYields(t) ==
    /\ loop = t
    /\ turn[t].pc = "read"
    /\ turn[t].left > 0
    /\ turn' = [turn EXCEPT ![t].left = @ - 1, ![t].frames = @ + 1,
                            ![t].pc = "yield_frame"]
    /\ loop' = "none"
    /\ UNCHANGED loop_frame

\* the upstream body ends: the generator yields the sentinel
BodyEnds(t) ==
    /\ loop = t
    /\ turn[t].pc = "read"
    /\ turn[t].left = 0
    /\ turn' = [turn EXCEPT ![t].frames = @ + 1, ![t].pc = "yield_done"]
    /\ loop' = "none"
    /\ UNCHANGED loop_frame

\* the loop resumes the generator after a frame: await asyncio.sleep(0)
ResumeAfterFrame(t) ==
    /\ loop = "none"
    /\ turn[t].pc = "yield_frame"
    /\ turn' = [turn EXCEPT ![t].pc = "sleep"]
    /\ UNCHANGED <<loop, loop_frame>>

\* the loop resumes the generator after the sleep: the for loop asks
\* iter_lines for the next line
ResumeAfterSleep(t) ==
    /\ loop = "none"
    /\ turn[t].pc = "sleep"
    /\ turn' = [turn EXCEPT ![t].pc = "read"]
    /\ loop' = t
    /\ UNCHANGED loop_frame

\* the loop resumes the generator after the sentinel: finally, the end
ResumeAfterDone(t) ==
    /\ loop = "none"
    /\ turn[t].pc = "yield_done"
    /\ turn' = [turn EXCEPT ![t].pc = "finished"]
    /\ UNCHANGED <<loop, loop_frame>>

\* the loop runs the task of turn t
RunTurn(t) ==
    \/ StartTurn(t)
    \/ ResumeAfterFrame(t)
    \/ ResumeAfterSleep(t)
    \/ ResumeAfterDone(t)

LoopNext ==
    \E t \in Turns :
        \/ StartTurn(t)
        \/ PostReturns(t)
        \/ LineBuffered(t)
        \/ LineYields(t)
        \/ BodyEnds(t)
        \/ ResumeAfterFrame(t)
        \/ ResumeAfterSleep(t)
        \/ ResumeAfterDone(t)

LoopSpec == LoopInit /\ [][LoopNext]_vars

(***************************************************************************)
(* The JSON endpoints that open a warehouse connection: list_agents of the *)
(* agent application, and api_snowflake_test, api_snowflake_query and      *)
(* cortex_chat of the simple application.  A request runs one of them.     *)
(***************************************************************************)
MaxItems == 2

\* the endpoints, by what they do
Endpoints == {"agents", "test", "query", "analyst"}

\* the endpoints that run one statement on a cursor
QueryEndpoints == {"agents", "test", "query"}

\* str(e) of what sc.connect, the cursor calls and conn.close() raise
QueryErrors ==
    { <<"SQL compilation error">>,
      <<"OAuth access ", "token", " has ", "expired">> }

\* "token" in error_msg.lower() or "expired" in error_msg.lower()
mentions_token(msg) == \E i \in 1..Len(msg) : msg[i] \in {"token", "expired"}

\* the status the except block of the endpoint answers with
except_status(name, msg) ==
    IF name \in {"test", "query"} /\ mentions_token(msg) THEN 401 ELSE 500

\* statuses of an analyst API answer that is not a 200
AnalystErrorStatuses == {429, 500}

\* request bodies of POST /api/cortex/chat; the other endpoints are GETs
AnalystBodies ==
    { json_dumps(obj1("messages", JArr(<<S("hi")>>))),
      json_dumps(obj1("messages", JArr(<<>>))),
      json_dumps(JObj(<<>>)),
      json_dumps(JArr(<<JNum("5")>>)),
      <<"not-json">> }

bodies_of(name) == IF name = "analyst" THEN AnalystBodies ELSE {<<>>}

\* body.get("messages", [])
messages_of(text) == get(json_loads(text).val, "messages", JArr(<<>>))

\* the items of message.content of the analyst's answer: a text item, an
\* item of type sql with a statement, an item that is not an object
ItemKinds == {"text", "sql", "bad"}

ContentScripts == UNION {[1..n -> ItemKinds] : n \in 0..MaxItems}

EndpointInit ==
    /\ user_sessions \in SessionStores
    /\ relay_idle
    /\ parser_idle
    /\ stores_idle
    /\ loop_idle
    /\ endpoint_idle

\* what the endpoints leave alone
endpoint_frame ==
    <<user_sessions, parser_vars, store_vars, loop_vars, status_code,
      response_text, upstream, consumed, buffer_lines, frames, disconnected>>

\* the request of an endpoint arrives
arrives(name, cookie, text) ==
    /\ pc = "idle"
    /\ request' = [cookie |-> cookie, body |-> text]
    /\ endpoint' = [name |-> name, content |-> <<>>]

\* the cookie passes get_current_user and get_access_token
authenticated(cookie) ==
    ~get_current_user_fails(cookie) /\ ~get_access_token_fails(cookie)

\* the body of the request lets the endpoint go on to sc.connect
body_accepted(name, text) ==
    name = "analyst" => ~body_raises(text) /\ truthy(messages_of(text))

\* a dependency raised 401: the endpoint's body does not run
EndpointUnauthenticated ==
    /\ \E name \in Endpoints, cookie \in Cookies :
       \E text \in bodies_of(name) :
          /\ ~authenticated(cookie)
          /\ arrives(name, cookie, text)
    /\ pc' = "answered"
    /\ http_status' = 401
    /\ UNCHANGED <<conn, close_calls, post_calls, endpoint_frame>>

\* cortex_chat: request.json() or body.get raised: except Exception -> 500
AnalystBadBody ==
    /\ \E cookie \in Cookies, text \in AnalystBodies :
          /\ authenticated(cookie)
          /\ body_raises(text)
          /\ arrives("analyst", cookie, text)
    /\ pc' = "answered"
    /\ http_status' = 500
    /\ UNCHANGED <<conn, close_calls, post_calls, endpoint_frame>>

\* cortex_chat: no messages: 400
AnalystNoMessages ==
    /\ \E cookie \in Cookies, text \in AnalystBodies :
          /\ authenticated(cookie)
          /\ ~body_raises(text)
          /\ ~truthy(messages_of(text))
          /\ arrives("analyst", cookie, text)
    /\ pc' = "answered"
    /\ http_status' = 400
    /\ UNCHANGED <<conn, close_calls, post_calls, endpoint_frame>>

\* sc.connect raised: cortex_chat answers 401, the others through their
\* except block
EndpointConnectFails ==
    /\ \E name \in Endpoints, cookie \in Cookies, e \in QueryErrors :
       \E text \in bodies_of(name) :
          /\ authenticated(cookie)
          /\ body_accepted(name, text)
          /\ arrives(name, cookie, text)
          /\ http_status' = IF name = "analyst" THEN 401
                            ELSE except_status(name, e)
    /\ pc' = "answered"
    /\ conn' = "failed"
    /\ UNCHANGED <<close_calls, post_calls, endpoint_frame>>

\* sc.connect returned a connection
EndpointConnects ==
    /\ \E name \in Endpoints, cookie \in Cookies :
       \E text \in bodies_of(name) :
          /\ authenticated(cookie)
          /\ body_accepted(name, text)
          /\ arrives(name, cookie, text)
    /\ pc' = "connected"
    /\ conn' = "open"
    /\ UNCHANGED <<http_status, close_calls, post_calls, endpoint_frame>>

\* conn.cursor(), cs.execute, a fetch or cs.close() raised: the except
\* block answers; the conn.close() of the try block is not reached
QueryRaises ==
    /\ pc = "connected"
    /\ endpoint.name \in QueryEndpoints
    /\ \E e \in QueryErrors : http_status' = except_status(endpoint.name, e)
    /\ pc' = "answered"
    /\ UNCHANGED <<request, conn, close_calls, post_calls, endpoint,
                   endpoint_frame>>

\* the statement ran and the cursor is closed
QueryReturns ==
    /\ pc = "connected"
    /\ endpoint.name \in QueryEndpoints
    /\ pc' = "closing"
    /\ UNCHANGED <<request, http_status, conn, close_calls, post_calls,
                   endpoint, endpoint_frame>>

\* cortex_chat: requests.post raised (timeout=60): except Exception -> 500
AnalystPostRaises ==
    /\ pc = "connected"
    /\ endpoint.name = "analyst"
    /\ post_calls' = post_calls + 1
    /\ pc' = "answered"
    /\ http_status' = 500
    /\ UNCHANGED <<request, conn, close_calls, endpoint, endpoint_frame>>

\* cortex_chat: the analyst API answered with another status than 200:
\* HTTPException with that status
AnalystPostRejected ==
    /\ pc = "connected"
    /\ endpoint.name = "analyst"
    /\ post_calls' = post_calls + 1
    /\ pc' = "answered"
    /\ \E code \in AnalystErrorStatuses : http_status' = code
    /\ UNCHANGED <<request, conn, close_calls, endpoint, endpoint_frame>>

\* cortex_chat: the analyst API answered 200 and the loop over the content
\* items begins
AnalystPostAccepted ==
    /\ pc = "connected"
    /\ endpoint.name = "analyst"
    /\ post_calls' = post_calls + 1
    /\ pc' = "executing"
    /\ \E content \in ContentScripts :
          endpoint' = [endpoint EXCEPT !.content = content]
    /\ UNCHANGED <<request, http_status, conn, close_calls, endpoint_frame>>

\* cortex_chat: a text item is passed over; the statement of an sql item is
\* run, and what that raises is caught and stored in the item
AnalystItem ==
    /\ pc = "executing"
    /\ endpoint.content # <<>>
    /\ Head(endpoint.content) \in {"text", "sql"}
    /\ endpoint' = [endpoint EXCEPT !.content = Tail(endpoint.content)]
    /\ UNCHANGED <<request, pc, http_status, conn, close_calls, post_calls,
                   endpoint_frame>>

\* cortex_chat: item.get raised on an item that is not an object:
\* except Exception -> 500
AnalystItemRaises ==
    /\ pc = "executing"
    /\ endpoint.content # <<>>
    /\ Head(endpoint.content) = "bad"
    /\ pc' = "answered"
    /\ http_status' = 500
    /\ UNCHANGED <<request, conn, close_calls, post_calls, endpoint,
                   endpoint_frame>>

\* cortex_chat: the loop over the content items is over
AnalystLoopEnds ==
    /\ pc = "executing"
    /\ endpoint.content = <<>>
    /\ pc' = "closing"
    /\ UNCHANGED <<request, http_status, conn, close_calls, post_calls,
                   endpoint, endpoint_frame>>

\* conn.close() returned: the JSON answer, 200
EndpointCloses ==
    /\ pc = "closing"
    /\ close_calls' = close_calls + 1
    /\ pc' = "answered"
    /\ http_status' = 200
    /\ UNCHANGED <<request, conn, post_calls, endpoint, endpoint_frame>>

\* conn.close() raised: the except block answers
EndpointCloseRaises ==
    /\ pc = "closing"
    /\ close_calls' = close_calls + 1
    /\ pc' = "answered"
    /\ \E e \in QueryErrors : http_status' = except_status(endpoint.name, e)
    /\ UNCHANGED <<request, conn, post_calls, endpoint, endpoint_frame>>

EndpointNext ==
    \/ EndpointUnauthenticated
    \/ AnalystBadBody
    \/ AnalystNoMessages
    \/ EndpointConnectFails
    \/ EndpointConnects
    \/ QueryRaises
    \/ QueryReturns
    \/ AnalystPostRaises
    \/ AnalystPostRejected
    \/ AnalystPostAccepted
    \/ AnalystItem
    \/ AnalystItemRaises
    \/ AnalystLoopEnds
    \/ EndpointCloses
    \/ EndpointCloseRaises

EndpointSpec == EndpointInit /\ [][EndpointNext]_vars

(***************************************************************************)
(* GET /api/token/refresh of the simple application, run against the       *)
(* session stores the callbacks can have built.                            *)
(***************************************************************************)
\* a session as the simple application's callback stores it, with the
\* refresh token of the token response (None when it carried none)
RefreshableSession(user, access_token, refresh_token, created) ==
    [user |-> user, access_token |-> access_token,
     refresh_token |-> refresh_token, created |-> created]

\* time.time() of the callbacks and of the refresh requests
CallbackTime == 0
RefreshTime == 600

RefreshableSessions ==
    { RefreshableSession(user, S("token"), refresh_token, CallbackTime) :
         user \in {Alice, JNull}, refresh_token \in {S("refresh"), JNull} }

RefreshStores ==
    UNION {[ids -> RefreshableSessions] : ids \in SUBSET SessionIds}

\* what refresh_access_token returns from response.json() of a 200 answer
\* when that is an object: with or without a new refresh token, with a null
\* one, without an access token
NewTokens ==
    { obj1("access_token", S("token2")),
      obj2("access_token", S("token2"), "refresh_token", S("refresh2")),
      obj2("access_token", S("token2"), "refresh_token", JNull),
      JObj(<<>>) }

RefreshInit ==
    /\ user_sessions \in RefreshStores
    /\ issued = DOMAIN user_sessions
    /\ now = RefreshTime
    /\ oauth_sessions = <<>>
    /\ served = NoRequest
    /\ relay_idle
    /\ parser_idle
    /\ loop_idle
    /\ endpoint_idle

\* the answer of a refresh request; tokens is the provider's answer, None
\* when the provider was not asked or gave none
refreshed(outcome, cookie, tokens) ==
    [route |-> "refresh", outcome |-> outcome, key |-> cookie_key(cookie),
     age |-> 0, removed |-> {}, tokens |-> tokens]

\* the session a cookie names
session_of(cookie) == user_sessions[cookie.v]

\* the cookie names a session of the store
has_session(cookie) == truthy(cookie) /\ cookie.v \in DOMAIN user_sessions

\* no cookie, or no session under its id: 401
refresh_no_session ==
    /\ \E cookie \in Presented :
          /\ ~has_session(cookie)
          /\ served' = refreshed("401", cookie, JNull)
    /\ UNCHANGED <<now, oauth_sessions, user_sessions, issued, store_frame>>

\* the session holds no refresh token: 400
refresh_no_token ==
    /\ \E cookie \in Presented :
          /\ has_session(cookie)
          /\ ~truthy(session_of(cookie).refresh_token)
          /\ served' = refreshed("400", cookie, JNull)
    /\ UNCHANGED <<now, oauth_sessions, user_sessions, issued, store_frame>>

\* refresh_access_token raised (another status than 200, no connection, a
\* body that is not JSON) or returned something without a get method: 400
refresh_fails ==
    /\ \E cookie \in Presented :
          /\ has_session(cookie)
          /\ truthy(session_of(cookie).refresh_token)
          /\ served' = refreshed("400", cookie, JNull)
    /\ UNCHANGED <<now, oauth_sessions, user_sessions, issued, store_frame>>

\* (mutation: the refreshed session counts as created now)
with_tokens_Renewed(session, new_tokens) ==
    [session EXCEPT
       !.access_token = get(new_tokens, "access_token", JNull),
       !.refresh_token = IF haskey(new_tokens.v, <<"refresh_token">>)
                         THEN get(new_tokens, "refresh_token", JNull)
                         ELSE @,
       !.created = now]

\* the session after the assignments of api_refresh_token: the access token
\* of the answer, its refresh token when it has the key
with_tokens(session, new_tokens) ==
    [session EXCEPT
       !.access_token = get(new_tokens, "access_token", JNull),
       !.refresh_token = IF haskey(new_tokens.v, <<"refresh_token">>)
                         THEN get(new_tokens, "refresh_token", JNull)
                         ELSE @]

\* the provider answered with new tokens: they are stored in the session
refresh_succeeds ==
    /\ \E cookie \in Presented, new_tokens \in NewTokens :
          /\ has_session(cookie)
          /\ truthy(session_of(cookie).refresh_token)
          /\ user_sessions' =
                put(user_sessions, cookie.v,
                    with_tokens(session_of(cookie), new_tokens))
          /\ served' = refreshed("200", cookie, new_tokens)
    /\ UNCHANGED <<now, oauth_sessions, issued, store_frame>>

RefreshNext ==
    \/ refresh_no_session
    \/ refresh_no_token
    \/ refresh_fails
    \/ refresh_succeeds

RefreshSpec == RefreshInit /\ [][RefreshNext]_vars

(***************************************************************************)
(* Reading the output: what the browser decodes from the frames.           *)
(***************************************************************************)
\* JSON.parse of the text between "data: " and the two newlines
decoded(frame) == json_loads(SubSeq(frame, 3, Len(frame) - 2)).val

is_error_frame(frame) ==
    frame # DONE /\ isdict(decoded(frame)) /\ haskey(decoded(frame).v, <<"error">>)

is_data_frame(frame) == frame # DONE /\ ~is_error_frame(frame)

\* two dicts with the same keys and values, in any order
same_dict(a, b) ==
    /\ isdict(a) /\ isdict(b)
    /\ Len(a.v) = Len(b.v)
    /\ \A i \in 1..Len(a.v) :
          /\ haskey(b.v, a.v[i].key)
          /\ lookup(b.v, a.v[i].key, JNull) = a.v[i].val

done_count == Cardinality({i \in 1..Len(frames) : frames[i] = DONE})
has_error  == \E i \in 1..Len(frames) : is_error_frame(frames[i])
last_is_done == frames # <<>> /\ frames[Len(frames)] = DONE

\* the groups of lines that blank lines have closed, in arrival order
RECURSIVE blocks_of(_, _)
blocks_of(lines, pending) ==
    IF lines = <<>> THEN <<>>
    ELSE IF strip_nl(lines[1]) = <<>>
    THEN (IF pending = <<>> THEN <<>> ELSE <<pending>>)
         \o blocks_of(Tail(lines), <<>>)
    ELSE blocks_of(Tail(lines), Append(pending, strip_nl(lines[1])))

\* the frames of these blocks, in order; a block that raises ends them
RECURSIVE frames_of(_)
frames_of(blocks) ==
    IF blocks = <<>> THEN <<>>
    ELSE LET block == parse_sse_block(blocks[1])
         IN  IF ~truthy(block) THEN frames_of(Tail(blocks))
             ELSE LET c == classify(block)
                  IN  CASE c.res = "frame" ->
                             <<sse_frame(c.obj)>> \o frames_of(Tail(blocks))
                        [] c.res = "none"  -> frames_of(Tail(blocks))
                        [] c.res = "raise" -> <<>>

\* the frames the blocks read so far call for
due_frames == frames_of(blocks_of(consumed, <<>>))

(***************************************************************************)
(* C1.  The warehouse connection opened for a chat turn has close()        *)
(* invoked exactly once, whichever way event_stream ends: exhaustion of    *)
(* the upstream stream, upstream non-200, exception, client disconnect.    *)
(* The code closes twice after a non-200 response (line 1625 and the       *)
(* finally block), so TLC refutes the statement.                           *)
(***************************************************************************)
C1_CloseExactlyOnce ==
    pc \in {"finished", "cancelled"} => close_calls = 1

(***************************************************************************)
(* C2.  Once the stream has started, "data: [DONE]" is yielded exactly     *)
(* once and nothing is yielded after it, also when a call of the relay     *)
(* raises.  conn.close() of the non-200 branch sits inside the try and     *)
(* after the sentinel: when it raises, the except block yields an error    *)
(* frame and a second sentinel, so TLC refutes the statement.              *)
(***************************************************************************)
C2_SentinelExactlyOnce ==
    /\ done_count <= 1
    /\ \A i \in 1..Len(frames) : frames[i] = DONE => i = Len(frames)
    /\ pc = "finished" => done_count = 1

(***************************************************************************)
(* C3.  A response that is not a 200 yields exactly two frames, the error  *)
(* frame {"error": d} and the sentinel, where d is the message field of a  *)
(* JSON object body, else the body, else "HTTP <status>"; no body line is  *)
(* read as an event and the connection is released.  Refuted by the same   *)
(* raising conn.close() as C2: four frames are yielded.                    *)
(***************************************************************************)
claimed_detail(status, text) ==
    LET body == json_loads(text)
    IN  IF text = <<>> THEN <<"HTTP", " ", status>>
        ELSE IF body.ok /\ isdict(body.val)
                /\ isstr(get(body.val, "message", JNull))
        THEN get(body.val, "message", JNull).v
        ELSE text

C3_RejectedYieldsTwoFrames ==
    (pc = "finished" /\ status_code \notin {"", "200"}) =>
        /\ frames = <<sse_frame(error_obj(claimed_detail(status_code,
                                                          response_text))),
                      DONE>>
        /\ consumed = <<>>
        /\ close_calls >= 1

(***************************************************************************)
(* C4.  An exception raised after the upstream stream was opened (while    *)
(* reading a line, parsing or classifying a block) leaves the frames       *)
(* already yielded in place and in order, adds exactly one error frame     *)
(* and then the sentinel, nothing after them, and the connection is        *)
(* closed; the generator ends normally (the exception does not leave it).  *)
(***************************************************************************)
StreamErrors ==
    ReadErrors \cup UNION {slice_error([k |-> kind, v |-> <<>>]) :
                             kind \in {"num", "bool", "dict"}}

C4_MidStreamException ==
    (status_code = "200" /\ has_error) =>
        \E e \in StreamErrors :
            LET err == sse_frame(error_obj(e))
            IN  \/ /\ pc = "yield_exc_error"
                   /\ frames = due_frames \o <<err>>
                   /\ close_calls = 0
                \/ /\ pc = "yield_exc_done"
                   /\ frames = due_frames \o <<err, DONE>>
                   /\ close_calls = 0
                \/ /\ pc = "finished"
                   /\ frames = due_frames \o <<err, DONE>>
                   /\ close_calls = 1
                \/ /\ pc = "cancelled"
                   /\ frames \in {due_frames \o <<err>>,
                                  due_frames \o <<err, DONE>>}
                   /\ close_calls = 1

\* a frame was yielded, then a block raised, and the turn ended
C4_Witness ==
    /\ pc = "finished"
    /\ status_code = "200"
    /\ Len(frames) = 3
    /\ is_data_frame(frames[1])
    /\ frames[2] = sse_frame(error_obj(<<"'int' object is not subscriptable">>))
    /\ frames[3] = DONE
    /\ close_calls = 1

no_session(cookie) ==
    \/ cookie = JNull
    \/ cookie.v = <<>>
    \/ cookie.v \notin DOMAIN user_sessions
    \/ user_sessions[cookie.v].user = JNull
    \/ user_sessions[cookie.v].access_token \in {JNull, JStr(<<>>)}

C6_FailsClosed ==
    (pc # "idle" /\ (no_session(request.cookie) \/ conn = "failed")) =>
        /\ pc = "http_error"
        /\ http_status = 401
        /\ post_calls = 0
        /\ frames = <<>>
        /\ conn # "open"
        /\ close_calls = 0

\* the cookie names a session that has no user
C6_Witness ==
    /\ pc = "http_error"
    /\ http_status = 401
    /\ request.cookie = S("s2")
    /\ <<"s2">> \in DOMAIN user_sessions
    /\ user_sessions[<<"s2">>].user = JNull

(***************************************************************************)
(* C7.  In every error class the browser receives the terminating          *)
(* sentinel.  As stated this fails for AuthExpired: the 401 is answered    *)
(* before any stream exists.                                               *)
(***************************************************************************)
C7_SentinelInEveryErrorClass ==
    (pc \in {"http_error", "finished"} /\ http_status \in {200, 401}) =>
        last_is_done

\* C7 as amended: a turn that streams (upstream rejected, malformed
\* event, transport failure) and is not torn down ends with the sentinel
\* as its last frame and its generator ends normally; a request that is
\* not authenticated is answered 401 and gets no frame at all.
C7_SentinelWhenStreaming ==
    /\ pc = "finished" => (http_status = 200 /\ last_is_done)
    /\ pc = "http_error" => (http_status \in {400, 401, 500} /\ frames = <<>>)

\* the upstream rejected the POST and the turn has ended
C7_Witness ==
    /\ pc = "finished"
    /\ status_code = "503"
    /\ Len(frames) = 2
    /\ is_error_frame(frames[1])
    /\ frames[2] = DONE

(***************************************************************************)
(* C8.  A well-formed block of a classified event type yields exactly the  *)
(* frame of the reclassification table, once, and no frame when the row's  *)
(* condition does not hold.  table_row is the table as the design states   *)
(* it: the sequence of frames (none or one) a block calls for.             *)
(***************************************************************************)
field(block, key) == get(block, key, JNull)
present(x) == x.k \in {"str", "list", "dict"} /\ x.v # <<>>
absent(x)  == x = JNull \/ (x.k \in {"str", "list", "dict"} /\ x.v = <<>>)
text_or_absent(x) == x = JNull \/ isstr(x)

TableTypes ==
    {"response.thinking.delta", "response.text.delta", "response.table",
     "response.tool_use", "response.tool_result.analyst.delta",
     "response.status"}

\* the fields of the block have the JSON types the protocol gives them
well_formed(block) ==
    LET t == field(block, "event")
    IN  /\ t \in {S(x) : x \in TableTypes}
        /\ t \in {S("response.thinking.delta"), S("response.text.delta")}
              => text_or_absent(field(block, "text"))
        /\ t = S("response.table")
              => \A key \in {"table", "json", "content"} :
                    present(field(block, key)) \/ absent(field(block, key))
        /\ t = S("response.tool_use")
              => /\ text_or_absent(field(block, "tool_name"))
                 /\ text_or_absent(field(block, "tool_type"))
                 /\ \/ present(field(block, "tool_name"))
                    \/ present(field(block, "tool_type"))
        /\ t = S("response.tool_result.analyst.delta")
              => /\ isdict(field(block, "delta"))
                 /\ text_or_absent(field(field(block, "delta"), "sql"))
                 /\ text_or_absent(field(field(block, "delta"), "sql_explanation"))
        /\ t = S("response.status")
              => text_or_absent(field(block, "message"))

table_row(block) ==
    LET t == field(block, "event")
    IN  CASE t = S("response.thinking.delta") ->
               IF present(field(block, "text"))
               THEN <<obj2("type", S("thinking"), "content", field(block, "text"))>>
               ELSE <<>>
          [] t = S("response.text.delta") ->
               IF present(field(block, "text"))
               THEN <<obj2("type", S("message"), "content", field(block, "text"))>>
               ELSE <<>>
          [] t = S("response.table") ->
               IF present(field(block, "table"))
               THEN <<obj2("type", S("table"), "data", field(block, "table"))>>
               ELSE IF present(field(block, "json"))
               THEN <<obj2("type", S("table"), "data", field(block, "json"))>>
               ELSE IF present(field(block, "content"))
               THEN <<obj2("type", S("table"), "data", field(block, "content"))>>
               ELSE <<>>
          [] t = S("response.tool_use") ->
               LET name == IF present(field(block, "tool_name"))
                           THEN field(block, "tool_name")
                           ELSE field(block, "tool_type")
               IN  <<obj2("type", S("status"), "content",
                          JStr(<<"(tool)", " ", "Using tool:", " ">> \o name.v))>>
          [] t = S("response.tool_result.analyst.delta") ->
               IF present(field(field(block, "delta"), "sql"))
               THEN <<JObj(<<Pair("type", S("sql")),
                             Pair("sql", field(field(block, "delta"), "sql")),
                             Pair("explanation",
                                  field(field(block, "delta"), "sql_explanation"))>>)>>
               ELSE <<>>
          [] t = S("response.status") ->
               IF present(field(block, "message"))
               THEN <<obj2("type", S("status"), "content",
                           JStr(<<"(wait)", " ">> \o field(block, "message").v))>>
               ELSE <<>>

\* the step reads the blank line that completes a block
completes_block ==
    /\ pc = "reading"
    /\ upstream # <<>>
    /\ block_complete
    /\ consumed' = Append(consumed, Head(upstream))

C8_TableFrame ==
    [][(completes_block /\ well_formed(event_data)) =>
          IF table_row(event_data) = <<>>
          THEN frames' = frames /\ pc' = "reading"
          ELSE /\ Len(frames') = Len(frames) + 1
               /\ SubSeq(frames', 1, Len(frames)) = frames
               /\ same_dict(decoded(frames'[Len(frames')]),
                            table_row(event_data)[1])
               /\ pc' = "yield_frame"]_vars

\* the lines of the example have been read and their frame yielded
C8_Witness ==
    /\ consumed = <<ev("response.text.delta"), DataHi, Blank>>
    /\ pc = "yield_frame"
    /\ Len(frames) = 1
    /\ same_dict(decoded(frames[1]), obj2("type", S("message"), "content", S("hi")))

(***************************************************************************)
(* C9.  A block whose event type is none of the eight classified types,    *)
(* or that has no event type, yields no frame and raises nothing: the      *)
(* loop goes on reading, and the turn still ends with the sentinel.        *)
(***************************************************************************)
unclassified(block) ==
    field(block, "event") \notin {S(t) : t \in ClassifiedTypes}

\* some block read so far has an unclassified type
read_unclassified ==
    \E i \in 1..Len(blocks_of(consumed, <<>>)) :
        LET block == parse_sse_block(blocks_of(consumed, <<>>)[i])
        IN  truthy(block) /\ unclassified(block)

C9_UnclassifiedSilent ==
    /\ [][(completes_block /\ unclassified(event_data)) =>
             /\ frames' = frames
             /\ pc' = "reading"
             /\ upstream' = Tail(upstream)]_vars
    /\ []((pc = "finished" /\ read_unclassified) => last_is_done)

\* an unclassified block was read, then a classified one, and the turn ended
C9_Witness ==
    /\ pc = "finished"
    /\ Len(consumed) = 7
    /\ SubSeq(consumed, 1, 3) = <<ev("done"), DataHi, Blank>>
    /\ Len(frames) = 2
    /\ is_data_frame(frames[1])
    /\ frames[2] = DONE

(***************************************************************************)
(* C10.  The data frames yielded are, at every moment, exactly the frames  *)
(* of the blocks read so far, in the order the blocks arrived: none is     *)
(* reordered, duplicated, merged or held back while later lines are read.  *)
(***************************************************************************)
data_frames == SelectSeq(frames, is_data_frame)

C10_FramesFollowBlocks ==
    /\ data_frames = due_frames
    /\ status_code = "200" =>
          \A i \in 1..Len(frames) :
              is_data_frame(frames[i]) <=> i <= Len(due_frames)

\* two different frames were yielded, in the order of their blocks
C10_Witness ==
    /\ Len(consumed) = 7
    /\ Len(data_frames) = 2
    /\ data_frames[1] # data_frames[2]
    /\ pc = "reading"

(***************************************************************************)
(* C11.  A response.chart block yields a chart frame whenever one of the   *)
(* four locations holds a chart specification, the locations being tried   *)
(* in order and the first match winning; the frame carries the string      *)
(* verbatim or the serialized object; no location, no frame.  The code's   *)
(* elif chain stops at the first location of the right type: a block       *)
(* whose chart is an object without mark and encoding never has its json   *)
(* object looked at, so TLC refutes the statement.                         *)
(***************************************************************************)
\* an object that contains mark or encoding
is_chart_object(x) ==
    isdict(x) /\ (haskey(x.v, <<"mark">>) \/ haskey(x.v, <<"encoding">>))

\* the chart specification of the first location that matches, if any
claimed_chart_spec(block) ==
    LET top   == field(block, "chart_spec")
        chart == field(block, "chart")
        j     == field(block, "json")
    IN  IF isstr(top) THEN <<top>>
        ELSE IF isdict(chart) /\ isstr(field(chart, "chart_spec"))
        THEN <<field(chart, "chart_spec")>>
        ELSE IF is_chart_object(chart) THEN <<JStr(json_dumps(chart))>>
        ELSE IF is_chart_object(j) THEN <<JStr(json_dumps(j))>>
        ELSE <<>>

C11_ChartFrame ==
    [][(completes_block /\ field(event_data, "event") = S("response.chart")) =>
          IF claimed_chart_spec(event_data) = <<>>
          THEN frames' = frames /\ pc' = "reading"
          ELSE /\ Len(frames') = Len(frames) + 1
               /\ SubSeq(frames', 1, Len(frames)) = frames
               /\ same_dict(decoded(frames'[Len(frames')]),
                            obj2("type", S("chart"), "chart_spec",
                                 claimed_chart_spec(event_data)[1]))
               /\ pc' = "yield_frame"]_vars

(***************************************************************************)
(* C12.  A block of event type error yields one ordinary message frame     *)
(* with the prefixed error text (its message, or "Unknown error" when it   *)
(* has none) and does not end the stream: no {"error": ...} frame is       *)
(* yielded for it, the loop goes on with the next line, later blocks are   *)
(* relayed, and the turn ends with the one sentinel.                       *)
(***************************************************************************)
\* the text an error block is told with
claimed_error_text(block) ==
    <<"(warn)", " ", "Error:", " ">>
    \o (IF haskey(block.v, <<"message">>)
        THEN field(block, "message").v
        ELSE <<"Unknown error">>)

\* an error block whose message is a text or missing
is_error_block(block) ==
    /\ field(block, "event") = S("error")
    /\ haskey(block.v, <<"message">>) => isstr(field(block, "message"))

\* some block read so far is an error block
read_error_block ==
    \E i \in 1..Len(blocks_of(consumed, <<>>)) :
        LET block == parse_sse_block(blocks_of(consumed, <<>>)[i])
        IN  truthy(block) /\ is_error_block(block)

C12_ErrorEventIsMessage ==
    /\ [][(completes_block /\ is_error_block(event_data)) =>
             /\ Len(frames') = Len(frames) + 1
             /\ SubSeq(frames', 1, Len(frames)) = frames
             /\ same_dict(decoded(frames'[Len(frames')]),
                          obj2("type", S("message"), "content",
                               JStr(claimed_error_text(event_data))))
             /\ pc' = "yield_frame"
             /\ upstream' = Tail(upstream)]_vars
    /\ []((read_error_block /\ ~has_error) =>
             /\ data_frames = due_frames
             /\ pc = "finished" => (frames = due_frames \o <<DONE>>
                                    /\ done_count = 1))

\* an error block was read, the block after it was relayed, the turn ended
C12_Witness ==
    /\ pc = "finished"
    /\ Len(consumed) = 6
    /\ SubSeq(consumed, 1, 3)
          = <<ev("error"), da(json_dumps(obj1("message", S("m")))), Blank>>
    /\ Len(frames) = 3
    /\ same_dict(decoded(frames[1]),
                 obj2("type", S("message"), "content",
                      JStr(<<"(warn)", " ", "Error:", " ", "m">>)))
    /\ is_data_frame(frames[2])
    /\ frames[2] # frames[1]
    /\ frames[3] = DONE

(***************************************************************************)
(* C13.  parse_sse_block never raises on malformed input: a payload that   *)
(* is not valid JSON comes back as {data: <the payload text>, event: <the  *)
(* event type or null>}; the single line "data: not-json" parses to        *)
(* {"data": "not-json", "event": null}; a valid JSON payload that is not   *)
(* an object comes back as {data: <value>, event: <type>}.  The payload    *)
(* text is the text of the data: lines without surrounding white space.    *)
(***************************************************************************)
\* the remainders of the data: lines, left-stripped, in their order
RECURSIVE data_remainders(_)
data_remainders(ls) ==
    IF ls = <<>> THEN <<>>
    ELSE IF startswith(ls[1], "data:")
    THEN <<lstrip(Tail(ls[1]))>> \o data_remainders(Tail(ls))
    ELSE data_remainders(Tail(ls))

\* the trimmed remainder of the last event: line, null when there is none
RECURSIVE last_event_type(_)
last_event_type(ls) ==
    IF ls = <<>> THEN JNull
    ELSE IF startswith(ls[Len(ls)], "event:")
    THEN JStr(strip(Tail(ls[Len(ls)])))
    ELSE last_event_type(SubSeq(ls, 1, Len(ls) - 1))

\* the payload text of a group
payload_text(ls) == strip(join(data_remainders(ls)))

C14_SessionsExpire ==
    /\ (served.route \in {"chat", "agents", "home"}
           /\ served.outcome = "resolved") => served.age <= SessionTTL
    /\ (served.route = "callback" /\ served.outcome = "302")
           => served.age <= PendingTTL

(***************************************************************************)
(* C15.  The relay never retries: a chat turn issues at most one upstream  *)
(* POST; after a response that is not a 200 and after an error in the      *)
(* stream no further POST is issued and no further upstream line read;     *)
(* the turn ends with an error frame and the sentinel.                     *)
(***************************************************************************)
\* the upstream call failed or the stream broke
turn_failed == status_code \notin {"", "200"} \/ has_error

C15_NoRetry ==
    /\ [](post_calls <= 1)
    /\ [][turn_failed =>
             /\ post_calls' = post_calls
             /\ consumed' = consumed
             /\ upstream' = upstream]_vars
    /\ []((pc = "finished" /\ turn_failed) =>
             /\ Len(frames) >= 2
             /\ is_error_frame(frames[Len(frames) - 1])
             /\ frames[Len(frames)] = DONE)

\* a read failed with lines still to come, and the turn ended
C15_Witness ==
    /\ pc = "finished"
    /\ status_code = "200"
    /\ post_calls = 1
    /\ consumed # <<>>
    /\ upstream # <<>>
    /\ frames = due_frames
                 \o <<sse_frame(error_obj(<<"Connection broken">>)), DONE>>

(***************************************************************************)
(* C16.  A response.tool_use block whose tool name is empty yields no      *)
(* frame.  As stated this fails: the branch yields its status frame        *)
(* without any condition.                                                  *)
(***************************************************************************)
\* the text of a name of the block: empty when the block has no such key
name_of(block, key) ==
    IF haskey(block.v, <<key>>) THEN field(block, key).v ELSE <<>>

\* a tool_use block whose names are texts or missing
is_tool_use_block(block) ==
    /\ field(block, "event") = S("response.tool_use")
    /\ \A key \in {"tool_name", "tool_type"} :
          haskey(block.v, <<key>>) => isstr(field(block, key))

C16_EmptyToolNameSilent ==
    [][(completes_block /\ is_tool_use_block(event_data)
          /\ name_of(event_data, "tool_name") = <<>>
          /\ name_of(event_data, "tool_type") = <<>>) =>
             frames' = frames /\ pc' = "reading"]_vars

\* C16 as amended: every tool_use block yields exactly one status frame;
\* its text is the label followed by the tool name, or by the tool type
\* when the name is empty, or by nothing when both are empty.
claimed_tool_text(block) ==
    LET name == IF name_of(block, "tool_name") # <<>>
                THEN name_of(block, "tool_name")
                ELSE name_of(block, "tool_type")
    IN  IF name = <<>> THEN <<"(tool)", " ", "Using tool:">>
        ELSE <<"(tool)", " ", "Using tool:", " ">> \o name

C16_ToolUseAlwaysStatus ==
    [][(completes_block /\ is_tool_use_block(event_data)) =>
          /\ Len(frames') = Len(frames) + 1
          /\ SubSeq(frames', 1, Len(frames)) = frames
          /\ same_dict(decoded(frames'[Len(frames')]),
                       obj2("type", S("status"), "content",
                            JStr(claimed_tool_text(event_data))))
          /\ pc' = "yield_frame"]_vars

\* a tool_use block with two empty names was read and its frame yielded
C16_Witness ==
    /\ consumed = <<ev("response.tool_use"),
                    da(json_dumps(obj2("tool_name", JStr(<<>>),
                                       "tool_type", JStr(<<>>)))),
                    Blank>>
    /\ pc = "yield_frame"
    /\ Len(frames) = 1
    /\ same_dict(decoded(frames[1]),
                 obj2("type", S("status"), "content",
                      JStr(<<"(tool)", " ", "Using tool:">>)))

(***************************************************************************)
(* C17.  The relay classifies every block by the label of its event: line, *)
(* also when the payload object carries an event key of another value.     *)
(* As stated this fails: parse_sse_block keeps the event key of the        *)
(* payload, and the chain classifies by that key.                          *)
(***************************************************************************)
\* the payload object of a group of lines
payload_object(ls) == json_loads(payload_text(ls)).val

\* the group has a payload object and an event: line with a label
labelled_object(ls) ==
    /\ json_loads(payload_text(ls)).ok
    /\ isdict(payload_object(ls))
    /\ truthy(last_event_type(ls))

\* the payload object under the label of the event: line
labelled_by_line(ls) ==
    JObj(setitem(payload_object(ls).v, <<"event">>, last_event_type(ls)))

\* the payload object under its own event key, or under the label of the
\* event: line when it has no such key
labelled_by_key(ls) ==
    IF haskey(payload_object(ls).v, <<"event">>)
    THEN payload_object(ls)
    ELSE labelled_by_line(ls)

\* the step yields the frame the table has for this block, or none
yields_row_of(block) ==
    IF table_row(block) = <<>>
    THEN frames' = frames /\ pc' = "reading"
    ELSE /\ Len(frames') = Len(frames) + 1
         /\ SubSeq(frames', 1, Len(frames)) = frames
         /\ same_dict(decoded(frames'[Len(frames')]), table_row(block)[1])
         /\ pc' = "yield_frame"

\* the step reads the blank line that ends a group of buffered lines
ends_group ==
    /\ pc = "reading"
    /\ upstream # <<>>
    /\ next_line = <<>>
    /\ buffer_lines # <<>>
    /\ consumed' = Append(consumed, Head(upstream))

C17_ClassifiedByEventLine ==
    [][(ends_group /\ labelled_object(buffer_lines)
          /\ well_formed(labelled_by_line(buffer_lines))) =>
             yields_row_of(labelled_by_line(buffer_lines))]_vars

\* C17 as amended: a block is classified by its event key, which is the
\* event value of the payload object when it has one and the label of the
\* event: line otherwise.
C17_ClassifiedByEventKey ==
    [][(ends_group /\ labelled_object(buffer_lines)
          /\ well_formed(labelled_by_key(buffer_lines))) =>
             yields_row_of(labelled_by_key(buffer_lines))]_vars

\* the event: line says status, the payload says text delta: a message
C17_Witness ==
    /\ consumed = <<ev("response.status"),
                    da(json_dumps(obj2("event", S("response.text.delta"),
                                       "text", S("own")))),
                    Blank>>
    /\ pc = "yield_frame"
    /\ Len(frames) = 1
    /\ same_dict(decoded(frames[1]),
                 obj2("type", S("message"), "content", S("own")))

(***************************************************************************)
(* C18.  When the payload decodes to a JSON object, parse_sse_block        *)
(* returns that object, with the key event set to the event type of the    *)
(* group if and only if the group has a non-empty event type and the       *)
(* object has no event key; an event key of the payload is never           *)
(* overwritten, every other key and value comes back unchanged.            *)
(***************************************************************************)
\* the group has an event type that is not empty
has_event_type(ls) ==
    last_event_type(ls) # JNull /\ last_event_type(ls).v # <<>>

C18_EventKeyInjection ==
    (parsed # Pending
       /\ json_loads(payload_text(call_lines)).ok
       /\ isdict(payload_object(call_lines))) =>
        LET obj == payload_object(call_lines)
        IN  IF has_event_type(call_lines) /\ ~haskey(obj.v, <<"event">>)
            THEN /\ isdict(parsed)
                 /\ Len(parsed.v) = Len(obj.v) + 1
                 /\ SubSeq(parsed.v, 1, Len(obj.v)) = obj.v
                 /\ parsed.v[Len(parsed.v)]
                       = [key |-> <<"event">>, val |-> last_event_type(call_lines)]
            ELSE parsed = obj

\* the event type was set on an object that had no event key
C18_Witness ==
    /\ call_lines = <<ev("response.text.delta"), DataHi>>
    /\ parsed = obj2("text", S("hi"), "event", S("response.text.delta"))

(***************************************************************************)
(* C19.  parse_sse_block groups the lines: the payload is the left-        *)
(* stripped remainders of the data: lines joined with newlines in their    *)
(* order; an event: line sets the trimmed event type, the last one wins;   *)
(* lines of any other prefix change nothing; a group without data: line    *)
(* or with an empty payload gives None, and the relay yields no frame for  *)
(* it.  As stated this fails: the joined payload is stripped on both       *)
(* sides before it is looked at.                                           *)
(***************************************************************************)
\* the block of a payload text and an event type
block_of(payload, type) ==
    LET value == json_loads(payload)
    IN  IF ~value.ok THEN obj2("data", JStr(payload), "event", type)
        ELSE IF ~isdict(value.val) THEN obj2("data", value.val, "event", type)
        ELSE IF type # JNull /\ type.v # <<>>
                /\ ~haskey(value.val.v, <<"event">>)
        THEN JObj(Append(value.val.v, [key |-> <<"event">>, val |-> type]))
        ELSE value.val

\* what the call returns and the relay does when this is the payload
groups_with(payload) ==
    parsed # Pending =>
        IF payload = <<>>
        THEN /\ parsed = JNull
             /\ handled # Pending => handled = Skip
        ELSE parsed = block_of(payload, last_event_type(call_lines))

C19_GroupsLines ==
    groups_with(join(data_remainders(call_lines)))

\* C19 as amended: the payload is the joined remainders without leading
\* and trailing white space; a group whose payload is empty after that
\* gives None.
C19_GroupsLinesTrimmed ==
    groups_with(strip(join(data_remainders(call_lines))))

\* an event: line and an object split over two data: lines
C19_Witness ==
    /\ call_lines = <<ev("response.text.delta"),
                      da(<<"{", "\"", "text", "\"", ":">>),
                      da(<<"\"", "hi", "\"", "}">>)>>
    /\ parsed = obj2("text", S("hi"), "event", S("response.text.delta"))
    /\ handled = Emit(obj2("content", S("hi"), "type", S("message")))

(***************************************************************************)
(* C20.  Every read of an upstream line is a suspension point: while a     *)
(* turn waits for its next line, or for the answer of its POST, another    *)
(* turn that is ready to run can be scheduled and yield frames.  The       *)
(* waits are inside requests.post and iter_lines, synchronous calls made   *)
(* on the thread of the event loop: no other turn runs until the call      *)
(* returns, so TLC refutes the statement.                                  *)
(***************************************************************************)
C20_ReadIsSuspensionPoint ==
    \A t \in Turns : \A u \in Turns \ {t} :
        (turn[t].pc \in TurnBlocking /\ turn[u].pc \in TurnSuspended) =>
            ENABLED RunTurn(u)

(***************************************************************************)
(* C21.  The sweep of /login removes exactly the pending-auth entries      *)
(* older than 600 s and exactly the sessions older than 3600 s (an entry   *)
(* without a creation time counts as created at 0); every other entry of   *)
(* both stores is left as it was, and each limit is applied to its own     *)
(* store only.                                                             *)
(***************************************************************************)
\* this step serves GET /login with the state token st
login_step(st) == st \notin issued /\ st \in issued' /\ st \in OAuthStates

\* the age of an entry, one without a creation time counting as created at 0
age_of(v) == now - (IF "created" \in DOMAIN v THEN v.created ELSE 0)

C21_SweepExact ==
    [][\A st \in OAuthStates : login_step(st) =>
          /\ DOMAIN oauth_sessions' \ {st} =
                {k \in DOMAIN oauth_sessions : age_of(oauth_sessions[k]) <= 600}
          /\ DOMAIN user_sessions' =
                {k \in DOMAIN user_sessions : age_of(user_sessions[k]) <= 3600}
          /\ \A k \in DOMAIN oauth_sessions' \ {st} :
                oauth_sessions'[k] = oauth_sessions[k]
          /\ \A k \in DOMAIN user_sessions' :
                user_sessions'[k] = user_sessions[k]]_vars

\* a login has swept a session away
C21_Witness ==
    /\ served.route = "login"
    /\ served.removed \cap SessionIds # {}
    /\ served.key \in DOMAIN oauth_sessions

(***************************************************************************)
(* C22.  A chat turn only consults the session stores: on every path (the  *)
(* 400, 401 and 500 answers, an upstream error, streaming, a disconnect)   *)
(* every step of the turn leaves the authenticated-session store and the   *)
(* pending-auth store as they were.                                        *)
(***************************************************************************)
C22_RelayLeavesStores ==
    [][user_sessions' = user_sessions /\ oauth_sessions' = oauth_sessions]_vars

\* an authenticated turn has streamed a frame and ended, the store of the
\* three sessions still in place
C22_Witness ==
    /\ pc = "finished"
    /\ http_status = 200
    /\ \E i \in 1..Len(frames) : is_data_frame(frames[i])
    /\ DOMAIN user_sessions = {<<"s1">>, <<"s2">>, <<"s3">>}
    /\ get_session_data(request.cookie) # JNull

(***************************************************************************)
(* C23.  No content of one decodable upstream event aborts the turn: the   *)
(* step that completes a block of a classified type, whatever the JSON     *)
(* types of its fields, adds no frame or one frame that is not an error    *)
(* frame, and the relay goes on reading.  The analyst branch slices        *)
(* sql_query for its log line (line 1719), which raises for a number, a    *)
(* boolean or an object, so TLC refutes the statement.                     *)
(***************************************************************************)
C23_NoEventAborts ==
    [][(completes_block /\ ~unclassified(event_data)) =>
          /\ Len(frames') \in {Len(frames), Len(frames) + 1}
          /\ SubSeq(frames', 1, Len(frames)) = frames
          /\ \A i \in Len(frames) + 1 .. Len(frames') :
                ~is_error_frame(frames'[i])
          /\ pc' \in {"reading", "yield_frame"}]_vars

(***************************************************************************)
(* C24.  No upstream event is lost at the end of the stream: when a turn   *)
(* has read the whole upstream body without an error, the frames before    *)
(* the sentinel are those of every group of lines of the body, the last    *)
(* group included when no blank line follows it.  The code parses a group  *)
(* only when it reads a blank line and does not look at buffer_lines after *)
(* the loop, so TLC refutes the statement.                                 *)
(***************************************************************************)
\* the groups of the lines read, the last one closed by the end of the body
groups_at_end == blocks_of(Append(consumed, <<>>), <<>>)

C24_NoEventLost ==
    (/\ pc = "finished"
     /\ status_code = "200"
     /\ upstream = <<>>
     /\ ~has_error
     /\ ~disconnected) =>
        /\ last_is_done
        /\ SubSeq(frames, 1, Len(frames) - 1) = frames_of(groups_at_end)

(***************************************************************************)
(* C25.  A pending-auth state is single-use: a callback for a state that   *)
(* is in the pending-auth store removes it, whether the exchange succeeds  *)
(* or fails; a state that has left the store never returns to it; and a    *)
(* callback for a state that is not in the store is answered 400 and       *)
(* creates no session.                                                     *)
(***************************************************************************)
\* this step serves GET /callback for the state st
callback_step(st) ==
    /\ served'.route = "callback"
    /\ served'.key = st
    /\ served' # served \/ oauth_sessions' # oauth_sessions

C25_StateSingleUse ==
    [][\A st \in OAuthStates :
          /\ (callback_step(st) /\ st \in DOMAIN oauth_sessions)
                => st \notin DOMAIN oauth_sessions'
          /\ (st \in issued /\ st \notin DOMAIN oauth_sessions)
                => st \notin DOMAIN oauth_sessions'
          /\ (callback_step(st) /\ st \notin DOMAIN oauth_sessions)
                => /\ served'.outcome = "400"
                   /\ user_sessions' = user_sessions]_vars

\* the one state issued so far has been exchanged for a session, and a
\* second callback with it has been answered 400
C25_Witness ==
    /\ \E st \in OAuthStates :
          /\ issued \cap OAuthStates = {st}
          /\ st \notin DOMAIN oauth_sessions
          /\ served.route = "callback"
          /\ served.key = st
          /\ served.outcome = "400"
    /\ Cardinality(DOMAIN user_sessions) = 1
    /\ Cardinality(issued \cap SessionIds) = 1

(***************************************************************************)
(* C26.  A session enters the authenticated-session store only through a   *)
(* callback whose state is in the pending-auth store and whose code        *)
(* exchange succeeded (answered with the 302 redirect); a callback that is *)
(* answered 400 (unknown state, or the exchange or the userinfo call       *)
(* raised) leaves the session store unchanged; no other request adds a     *)
(* session.                                                                *)
(***************************************************************************)
\* the session ids this step adds to the store
added_sessions == DOMAIN user_sessions' \ DOMAIN user_sessions

C26_SessionsOnlyByCallback ==
    [][/\ added_sessions # {} =>
             /\ served'.route = "callback"
             /\ served'.outcome = "302"
             /\ served'.key \in DOMAIN oauth_sessions
             /\ Cardinality(added_sessions) = 1
       /\ \A st \in OAuthStates :
             (callback_step(st) /\ served'.outcome = "400")
                => user_sessions' = user_sessions]_vars

\* a callback has exchanged its state for a session while an earlier one
\* had failed for the other state
C26_Witness ==
    /\ served.route = "callback"
    /\ served.outcome = "302"
    /\ issued \cap OAuthStates = OAuthStates
    /\ oauth_sessions = <<>>
    /\ Cardinality(DOMAIN user_sessions) = 1
    /\ Cardinality(issued \cap SessionIds) = 1
    /\ now = 0

(***************************************************************************)
(* C27.  Logout removes exactly the session its cookie names and leaves    *)
(* every other session and the pending-auth store as they were; with no    *)
(* cookie or an unknown id it changes nothing; it always answers with the  *)
(* redirect.  A session that has left the store never returns, and a       *)
(* request that presents an id that is not in the store is answered 401    *)
(* by the authenticated endpoints.                                         *)
(***************************************************************************)
\* the session ids a cookie can carry, "" for no cookie or an empty one
cookie_keys == {cookie_key(cookie) : cookie \in Presented}

\* this step serves GET /logout for the cookie value c
logout_step(c) ==
    /\ served'.route = "logout"
    /\ served'.key = c
    /\ served' # served \/ user_sessions' # user_sessions

\* this step serves an authenticated endpoint for the cookie value c
api_step(c) ==
    /\ served'.route \in {"chat", "agents"}
    /\ served'.key = c
    /\ served' # served

C27_LogoutRemovesOne ==
    [][\A c \in cookie_keys :
          /\ logout_step(c) =>
                /\ DOMAIN user_sessions' = DOMAIN user_sessions \ {c}
                /\ \A k \in DOMAIN user_sessions' :
                      user_sessions'[k] = user_sessions[k]
                /\ oauth_sessions' = oauth_sessions
                /\ served'.outcome = "302"
          /\ (c \in issued /\ c \notin DOMAIN user_sessions)
                => c \notin DOMAIN user_sessions'
          /\ (api_step(c) /\ c \notin DOMAIN user_sessions)
                => served'.outcome = "401"]_vars

\* of two sessions one has been logged out, the other is in place, and a
\* request with the id of the first has been answered 401
C27_Witness ==
    /\ now = 0
    /\ issued \cap SessionIds = SessionIds
    /\ Cardinality(DOMAIN user_sessions) = 1
    /\ served.route \in {"chat", "agents"}
    /\ served.outcome = "401"
    /\ served.key \in SessionIds \ DOMAIN user_sessions

(***************************************************************************)
(* C28.  An authenticated chat request whose body is an object that lacks  *)
(* one of agent_database, agent_schema, agent_name and message, or holds   *)
(* an empty value for it, is answered 400 before sc.connect and before the *)
(* upstream POST: no connection was acquired or closed, no POST issued and *)
(* no frame produced.                                                      *)
(***************************************************************************)
RequiredFields == {"agent_database", "agent_schema", "agent_name", "message"}

\* values Python treats as false
EmptyValues ==
    {JNull, JFalse, JStr(<<>>), JNum("0"), JArr(<<>>), JObj(<<>>)}

\* the body is a JSON object in which a required field is absent or empty
lacks_field(text) ==
    /\ json_loads(text).ok
    /\ isdict(json_loads(text).val)
    /\ \E f \in RequiredFields :
          get(json_loads(text).val, f, JNull) \in EmptyValues

C28_MissingFieldBeforeConnect ==
    (/\ pc # "idle"
     /\ ~no_session(request.cookie)
     /\ lacks_field(request.body)) =>
        /\ pc = "http_error"
        /\ http_status = 400
        /\ conn = "none"
        /\ close_calls = 0
        /\ post_calls = 0
        /\ frames = <<>>

\* the request of a session with user and token, its message empty
C28_Witness ==
    /\ pc = "http_error"
    /\ http_status = 400
    /\ request.cookie = S("s1")
    /\ request.body =
          json_dumps(body4(S("DB"), S("SC"), S("AGENT"), JStr(<<>>)))
    /\ conn = "none"

(***************************************************************************)
(* C29.  Every JSON endpoint that opened a warehouse connection (agent     *)
(* list, analyst chat, connection test, ad-hoc query) has called close()   *)
(* on it by the time it answers, on every exit path.  The endpoints call   *)
(* close() as the last statement of their try block and not in a finally   *)
(* block, so an exception or an upstream answer that is not a 200 leaves   *)
(* the connection open, and TLC refutes the statement.                     *)
(***************************************************************************)
C29_EndpointsClose ==
    (pc = "answered" /\ conn = "open") => close_calls = 1

(***************************************************************************)
(* C30.  Token refresh changes only the tokens of the calling session: on  *)
(* success the session's access token is the one the provider returned,    *)
(* its refresh token is replaced only when the provider returned one, and  *)
(* its user, its creation time and every other session are as before; a    *)
(* refresh that fails, or whose session or refresh token is missing,       *)
(* leaves the store unchanged and answers 400 or 401.                      *)
(***************************************************************************)
\* this step serves GET /api/token/refresh for the cookie value c
refresh_step(c) ==
    /\ served'.route = "refresh"
    /\ served'.key = c
    /\ served' # served \/ user_sessions' # user_sessions

\* the value the provider's answer holds under a key, None without the key
returned(key) == get(served'.tokens, key, JNull)

C30_RefreshChangesTokensOnly ==
    [][\A c \in cookie_keys : refresh_step(c) =>
          /\ DOMAIN user_sessions' = DOMAIN user_sessions
          /\ \A k \in DOMAIN user_sessions \ {c} :
                user_sessions'[k] = user_sessions[k]
          /\ served'.outcome = "200" =>
                /\ c \in DOMAIN user_sessions
                /\ user_sessions'[c].user = user_sessions[c].user
                /\ user_sessions'[c].created = user_sessions[c].created
                /\ user_sessions'[c].access_token = returned("access_token")
                /\ user_sessions'[c].refresh_token =
                      IF haskey(served'.tokens.v, <<"refresh_token">>)
                      THEN returned("refresh_token")
                      ELSE user_sessions[c].refresh_token
          /\ served'.outcome # "200" =>
                /\ served'.outcome \in {"400", "401"}
                /\ user_sessions' = user_sessions
          /\ c \notin DOMAIN user_sessions => served'.outcome = "401"
          /\ (c \in DOMAIN user_sessions
                /\ user_sessions[c].refresh_token = JNull)
                => served'.outcome = "400"]_vars

\* one of two sessions has been refreshed without a new refresh token: it
\* holds the new access token and its old refresh token and creation time,
\* and the other session holds the tokens of its callback
C30_Witness ==
    /\ served.route = "refresh"
    /\ served.outcome = "200"
    /\ served.tokens = obj1("access_token", S("token2"))
    /\ DOMAIN user_sessions = SessionIds
    /\ user_sessions[served.key] =
          RefreshableSession(Alice, S("token2"), S("refresh"), CallbackTime)
    /\ \E k \in SessionIds \ {served.key} :
          user_sessions[k] =
             RefreshableSession(Alice, S("token"), S("refresh"), CallbackTime)

====
